---- MODULE Spec2Model ----
(***************************************************************************)
(* A model of scripts/docs_gen.py: the comment-block parser that turns the *)
(* documentation comments of a library file into a document model          *)
(* (LibFile -> Section -> LeafNode) and the driver processFile around it.  *)
(*                                                                         *)
(* Text is modelled as sequences of tokens.  Punctuation, blanks and the   *)
(* line terminator are one token per character; a word (a keyword, a name) *)
(* is one token.  All string operations of the source (startswith, strip,  *)
(* split, slicing, the regular expressions) are modelled on these          *)
(* sequences, a word counting as one character: the inputs keep every     *)
(* word clear of the places where the source cuts a line (after the       *)
(* prefix, after the indentation), or spell it character by character.    *)
(***************************************************************************)
EXTENDS Integers, Sequences, FiniteSets, TLC

VARIABLES
    prefix,             \* processFile's prefix argument: "// " or ""
    input,              \* the lines of the input file, as read by readlines()
    lines,              \* the line cursor: the lines not yet consumed
    pc,                 \* the position of the program
    blanks,             \* get_comment_block's blanks argument (direct calls)
    block,              \* the block returned by the last direct get_comment_block call
    currsect,           \* LibFile.parse_lines: index into sections of currsect, 0 = None
    sections,           \* LibFile.sections
    deprecated_section, \* LibFile.deprecated_section: <<>> = None, else <<section>>
    libname,            \* LibFile.name
    libdesc,            \* LibFile.description
    includes,           \* LibFile.includes
    commoncode,         \* LibFile.commoncode
    sect,               \* the Section being parsed by Section.parse_lines
    node,               \* the LeafNode being parsed by LeafNode.parse_lines
    blankcnt,           \* the blank counter of the running Section/LeafNode loop
    stdout,             \* what the parser printed (diagnostics)
    exitcode,           \* the exit status of the process: <<>> while it runs
    outfile,            \* the output of processFile: [opened, data]
    iterlines,          \* len(lines) when the running iteration of LibFile.parse_lines began
    imgprc,             \* the ImageProcessing object: [examples, force, test_only, hashes]
    db,                 \* the hash cache examples_hashes.gdbm: a set of <<key, hash>>
    todo,               \* process_examples: the requests its loop has not reached yet
    rendered            \* the runs of process_examples, [force, test_only, calls] each:
                        \* the flags and the requests the renderer was invoked for

vars == <<prefix, input, lines, pc, blanks, block, currsect, sections,
          deprecated_section, libname, libdesc, includes, commoncode, sect,
          node, blankcnt, stdout, exitcode, outfile, iterlines, imgprc, db,
          todo, rendered>>

-----------------------------------------------------------------------------
(* Strings *)

NL == "\n"
SP == " "
Whitespace == {SP, NL}

Max(a, b) == IF a >= b THEN a ELSE b

\* s[n:] of Python
Drop(s, n) == IF n >= Len(s) THEN <<>> ELSE SubSeq(s, n + 1, Len(s))

\* s[:n] of Python
Take(s, n) == IF n <= 0 THEN <<>> ELSE IF n >= Len(s) THEN s ELSE SubSeq(s, 1, n)

\* s.startswith(p)
StartsWith(s, p) == Len(p) <= Len(s) /\ Take(s, Len(p)) = p

\* s.lstrip(chars): the number of leading tokens of s that are in chars
LeadCount(s, chars) ==
    IF \A i \in 1..Len(s) : s[i] \in chars THEN Len(s)
    ELSE (CHOOSE i \in 1..Len(s) : s[i] \notin chars /\ \A j \in 1..(i - 1) : s[j] \in chars) - 1

LStripChars(s, chars) == Drop(s, LeadCount(s, chars))

RStripChars(s, chars) ==
    IF \A i \in 1..Len(s) : s[i] \in chars THEN <<>>
    ELSE Take(s, CHOOSE i \in 1..Len(s) : s[i] \notin chars /\ \A j \in (i + 1)..Len(s) : s[j] \in chars)

\* s.rstrip(), s.lstrip(), s.strip()
rstrip(s) == RStripChars(s, Whitespace)
lstrip(s) == LStripChars(s, Whitespace)
strip(s) == lstrip(rstrip(s))

\* s.find(sub) + 1: the first position where sub occurs in s, 0 if none
Find(s, sub) ==
    IF \E i \in 1..(Len(s) - Len(sub) + 1) : SubSeq(s, i, i + Len(sub) - 1) = sub
    THEN CHOOSE i \in 1..(Len(s) - Len(sub) + 1) :
            /\ SubSeq(s, i, i + Len(sub) - 1) = sub
            /\ \A j \in 1..(i - 1) : SubSeq(s, j, j + Len(sub) - 1) # sub
    ELSE 0

\* s.rfind(sub) + 1: the last position where sub occurs in s, 0 if none
RFind(s, sub) ==
    IF \E i \in 1..(Len(s) - Len(sub) + 1) : SubSeq(s, i, i + Len(sub) - 1) = sub
    THEN CHOOSE i \in 1..(Len(s) - Len(sub) + 1) :
            /\ SubSeq(s, i, i + Len(sub) - 1) = sub
            /\ \A j \in (i + 1)..(Len(s) - Len(sub) + 1) : SubSeq(s, j, j + Len(sub) - 1) # sub
    ELSE 0

\* sub in s
Contains(s, sub) == Find(s, sub) # 0

\* s.split(sep, 1): <<before, after>> the first sep; <<s>> if there is none
Split1(s, sep) ==
    LET i == Find(s, sep)
    IN  IF i = 0 THEN <<s>> ELSE <<Take(s, i - 1), Drop(s, i + Len(sep) - 1)>>

\* s.split(sep): all the pieces
RECURSIVE SplitAll(_, _)
SplitAll(s, sep) ==
    LET i == Find(s, sep)
    IN  IF i = 0 THEN <<s>>
        ELSE <<Take(s, i - 1)>> \o SplitAll(Drop(s, i + Len(sep) - 1), sep)

\* The sequences of elements of S of length up to n
SeqsUpTo(S, n) == UNION {[1..k -> S] : k \in 0..n}

\* The concatenation of a sequence of sequences
RECURSIVE Flatten(_)
Flatten(ss) == IF ss = <<>> THEN <<>> ELSE Head(ss) \o Flatten(Tail(ss))

-----------------------------------------------------------------------------
(* get_comment_block *)

\* One run of the loop of get_comment_block, from the loop state
\* (lines, out, blankcnt, indent) to the returned (lines, out).
RECURSIVE get_comment_block_loop(_, _, _, _, _, _)
get_comment_block_loop(ls, pfx, blnks, out, bcnt, indent) ==
    IF ls = <<>> \/ ~StartsWith(Head(ls), pfx \o <<SP>>)
    THEN [lines |-> ls, block |-> out]
    ELSE LET popped == Drop(Head(ls), Len(pfx))
             nspaces == LeadCount(popped, {SP})
             line == IF indent = 0 THEN Drop(popped, nspaces) ELSE Drop(popped, indent)
             indent2 == IF indent = 0 THEN nspaces ELSE indent
             bcnt2 == IF line = <<>> THEN bcnt + 1 ELSE 0
             line2 == IF rstrip(line) = <<".">> THEN <<NL>> ELSE line
         IN  IF line = <<>> /\ bcnt2 >= blnks
             THEN [lines |-> Tail(ls), block |-> out]
             ELSE get_comment_block_loop(Tail(ls), pfx, blnks,
                                         Append(out, rstrip(line2)), bcnt2, indent2)

\* get_comment_block with the terminating line popped before the prefix test
get_comment_block_popfirst(ls, pfx, blnks) ==
    LET r == get_comment_block_loop(ls, pfx, blnks, <<>>, 0, 0)
    IN  IF r.lines # <<>> /\ ~StartsWith(Head(r.lines), pfx \o <<SP>>)
        THEN [r EXCEPT !.lines = Tail(@)]
        ELSE r

\* get_comment_block with a lone "." counted as a blank line
RECURSIVE get_comment_block_dotblank_loop(_, _, _, _, _, _)
get_comment_block_dotblank_loop(ls, pfx, blnks, out, bcnt, indent) ==
    IF ls = <<>> \/ ~StartsWith(Head(ls), pfx \o <<SP>>)
    THEN [lines |-> ls, block |-> out]
    ELSE LET popped == Drop(Head(ls), Len(pfx))
             nspaces == LeadCount(popped, {SP})
             cut == IF indent = 0 THEN Drop(popped, nspaces) ELSE Drop(popped, indent)
             line == IF rstrip(cut) = <<".">> THEN <<>> ELSE cut
             indent2 == IF indent = 0 THEN nspaces ELSE indent
             bcnt2 == IF line = <<>> THEN bcnt + 1 ELSE 0
         IN  IF line = <<>> /\ bcnt2 >= blnks
             THEN [lines |-> Tail(ls), block |-> out]
             ELSE get_comment_block_dotblank_loop(Tail(ls), pfx, blnks,
                                                  Append(out, rstrip(line)), bcnt2, indent2)

get_comment_block_dotblank(ls, pfx, blnks) ==
    get_comment_block_dotblank_loop(ls, pfx, blnks, <<>>, 0, 0)

get_comment_block(ls, pfx, blnks) == get_comment_block_loop(ls, pfx, blnks, <<>>, 0, 0)

-----------------------------------------------------------------------------
(* LeafNode *)

\* The attributes set by LeafNode.__init__; extype is the attribute that only
\* LibFile.parse_lines sets on the nodes it synthesizes (<<>> = not set).
LeafNode_init ==
    [name |-> <<>>, leaftype |-> <<>>, status |-> <<>>, topics |-> <<>>,
     usages |-> <<>>, description |-> <<>>, figures |-> <<>>, returns |-> <<>>,
     customs |-> <<>>, arguments |-> <<>>, named_arguments |-> <<>>,
     anchors |-> <<>>, side_effects |-> <<>>, examples |-> <<>>, extype |-> <<>>]

LeafHeaders ==
    {<<"Constant">>, <<"Function">>, <<"Function", "&", "Module">>, <<"Module">>}

LeafNode_match_line(line, pfx) ==
    \E h \in LeafHeaders : StartsWith(line, pfx \o h \o <<":", SP>>)

\* The patterns figpat and expat, ^(KW s?)(\(([^\)]*)\))?: *(.*)$, on a line:
\* [ok, plural, type (group 3, <<>> if absent or empty), title (group 4)].
HeaderPat(kw, line) ==
    LET plural == Len(line) >= 2 /\ line[2] = "s"
        i == IF plural THEN 3 ELSE 2
        paren == Len(line) >= i /\ line[i] = "("
        j == IF paren /\ \E k \in (i + 1)..Len(line) : line[k] = ")"
             THEN CHOOSE k \in (i + 1)..Len(line) :
                    line[k] = ")" /\ \A m \in (i + 1)..(k - 1) : line[m] # ")"
             ELSE 0
        colon == IF paren THEN j + 1 ELSE i
        ok == /\ line # <<>>
              /\ line[1] = kw
              /\ (paren => j # 0)
              /\ Len(line) >= colon
              /\ line[colon] = ":"
    IN  [ok |-> ok,
         plural |-> plural,
         type |-> IF ok /\ paren THEN SubSeq(line, i + 1, j - 1) ELSE <<>>,
         title |-> IF ok THEN LStripChars(Drop(line, colon), {SP}) ELSE <<>>]

\* for line in block: self.add_figure("", [line], figtype)
EachLine(blk, type) == [i \in 1..Len(blk) |-> <<<<>>, <<blk[i]>>, type>>]

\* The result of one dispatch: the node, the cursor, and what was printed
\* before sys.exit(-2) (<<>> = no exit).
Went(nd, ls) == [node |-> nd, lines |-> ls, err |-> <<>>]
Died(nd, ls, msgs) == [node |-> nd, lines |-> ls, err |-> msgs]

\* Arguments_loop with the "---" line taken for a line to skip only
RECURSIVE Arguments_loop_nosep(_, _, _, _)
Arguments_loop_nosep(blk, named, args, nargs) ==
    IF blk = <<>> THEN [arguments |-> args, named_arguments |-> nargs, bad |-> <<>>]
    ELSE LET line == Head(blk)
             kv == Split1(line, <<"=">>)
             entry == <<strip(kv[1]), strip(kv[2])>>
         IN  IF strip(line) = <<"-", "-", "-">>
             THEN Arguments_loop_nosep(Tail(blk), named, args, nargs)
             ELSE IF ~Contains(line, <<"=">>)
             THEN [arguments |-> args, named_arguments |-> nargs, bad |-> <<line>>]
             ELSE Arguments_loop_nosep(Tail(blk), named, Append(args, entry), nargs)

\* Arguments_loop with the lines without "=" skipped
RECURSIVE Arguments_loop_lenient(_, _, _, _)
Arguments_loop_lenient(blk, named, args, nargs) ==
    IF blk = <<>> THEN [arguments |-> args, named_arguments |-> nargs, bad |-> <<>>]
    ELSE LET line == Head(blk)
             kv == Split1(line, <<"=">>)
             entry == <<strip(kv[1]), strip(kv[2])>>
         IN  IF strip(line) = <<"-", "-", "-">>
             THEN Arguments_loop_lenient(Tail(blk), TRUE, args, nargs)
             ELSE IF ~Contains(line, <<"=">>)
             THEN Arguments_loop_lenient(Tail(blk), named, args, nargs)
             ELSE IF named
             THEN Arguments_loop_lenient(Tail(blk), named, args, Append(nargs, entry))
             ELSE Arguments_loop_lenient(Tail(blk), named, Append(args, entry), nargs)

\* The loop over the block of an Arguments: header (lines 451-467), from the
\* first line on: the two lists, and bad = <<line>> at the first line without
\* "=", where the source exits.
RECURSIVE Arguments_loop(_, _, _, _)
Arguments_loop(blk, named, args, nargs) ==
    IF blk = <<>> THEN [arguments |-> args, named_arguments |-> nargs, bad |-> <<>>]
    ELSE LET line == Head(blk)
             kv == Split1(line, <<"=">>)
             entry == <<strip(kv[1]), strip(kv[2])>>
         IN  IF strip(line) = <<"-", "-", "-">>
             THEN Arguments_loop(Tail(blk), TRUE, args, nargs)
             ELSE IF ~Contains(line, <<"=">>)
             THEN [arguments |-> args, named_arguments |-> nargs, bad |-> <<line>>]
             ELSE IF named
             THEN Arguments_loop(Tail(blk), named, args, Append(nargs, entry))
             ELSE Arguments_loop(Tail(blk), named, Append(args, entry), nargs)

\* The loop over the block of an Anchors: header (lines 471-479).
RECURSIVE Anchors_loop(_, _)
Anchors_loop(blk, anchors) ==
    IF blk = <<>> THEN [anchors |-> anchors, bad |-> <<>>]
    ELSE LET line == Head(blk)
             kv == Split1(line, <<"=">>)
         IN  IF ~Contains(line, <<"=">>)
             THEN [anchors |-> anchors, bad |-> <<line>>]
             ELSE Anchors_loop(Tail(blk), Append(anchors, <<strip(kv[1]), strip(kv[2])>>))

\* The default of the figures taken for the examples
ExampleDefault_3D(leaftype) == <<"3D">>

\* The default render type of an Example header without (TYPE) (line 493).
ExampleDefault(leaftype) ==
    IF leaftype \in {<<"Module">>, <<"Function", "&", "Module">>}
    THEN <<"3D">> ELSE <<"NORENDER">>

\* The default render type of a Figure header without (TYPE) (line 442).
FigureDefault == <<"3D">>

\* lines 403-412: the Usage: header; a header without usage lines is fatal
LeafNode_usage_unchecked(nd, line, val, blk) ==
    Went([nd EXCEPT !.usages = Append(@, <<val, blk.block>>)], blk.lines)

\* the Usage: header with a leading "- " taken off every usage line
LeafNode_usage_dashless(nd, line, val, blk) ==
    IF blk.block = <<>>
    THEN Died(nd, blk.lines,
              <<<<"Error: Usage header without any usage examples.">>, line>>)
    ELSE Went([nd EXCEPT !.usages = Append(@, <<val,
                  [i \in 1..Len(blk.block) |->
                      IF StartsWith(blk.block[i], <<"-", SP>>)
                      THEN Drop(blk.block[i], 2) ELSE blk.block[i]]>>)], blk.lines)

LeafNode_usage(nd, line, val, blk) ==
    IF blk.block = <<>>
    THEN Died(nd, blk.lines,
              <<<<"Error: Usage header without any usage examples.">>, line>>)
    ELSE Went([nd EXCEPT !.usages = Append(@, <<val, blk.block>>)], blk.lines)

\* lines 449-468: the Arguments: header
LeafNode_arguments(nd, blk) ==
    LET args == Arguments_loop(blk.block, FALSE, nd.arguments, nd.named_arguments)
    IN  IF args.bad # <<>>
        THEN Died([nd EXCEPT !.arguments = args.arguments,
                             !.named_arguments = args.named_arguments],
                  blk.lines,
                  <<<<"Error in ">> \o nd.name
                       \o <<": Could not parse line in Argument block.  Missing '='.">>,
                    <<"Line read was:">>, args.bad[1]>>)
        ELSE Went([nd EXCEPT !.arguments = args.arguments,
                             !.named_arguments = args.named_arguments], blk.lines)

\* lines 501-507: a line that is no block header
LeafNode_unrecognized_skipped(nd, line, rest) == Went(nd, rest)

LeafNode_unrecognized(nd, line, rest) ==
    Died(nd, rest,
         <<<<"Error in ">> \o nd.name
              \o (IF Contains(line, <<":">>)
                  THEN <<": Unrecognized block header.">>
                  ELSE <<": Unrecognized block header.  Missing colon?">>),
           <<"Line read was:">>, line>>)

\* Lines 371-507 of LeafNode.parse_lines: the dispatch of one non-blank line
\* (already popped and rstripped) on its keyword; rest is the cursor after it.
LeafNode_dispatch(nd, popped, rest, pfx) ==
    LET line == Drop(popped, Len(pfx))
        kv == Split1(line, <<":">>)
        val == IF Len(kv) = 2 THEN strip(kv[2]) ELSE <<>>
        blk == get_comment_block(rest, pfx, 1)
        fig == HeaderPat("Figure", line)
        ex == HeaderPat("Example", line)
        figtype == IF fig.type = <<>> THEN FigureDefault ELSE fig.type
        extype == IF ex.type = <<>> THEN ExampleDefault(nd.leaftype) ELSE ex.type
        anch == Anchors_loop(blk.block, nd.anchors)
    IN  IF \E h \in LeafHeaders : StartsWith(line, h \o <<":">>)
        THEN Went([nd EXCEPT !.name = val, !.leaftype = strip(kv[1])], rest)
        ELSE IF StartsWith(line, <<"Status", ":">>)
        THEN Went([nd EXCEPT !.status = val], rest)
        ELSE IF StartsWith(line, <<"Topics", ":">>)
        THEN Went([nd EXCEPT !.topics =
                      @ \o [i \in 1..Len(SplitAll(kv[2], <<",">>)) |->
                                strip(SplitAll(kv[2], <<",">>)[i])]], rest)
        ELSE IF StartsWith(line, <<"Usage", ":">>)
        THEN LeafNode_usage(nd, line, val, blk)
        ELSE IF StartsWith(line, <<"Description", ":">>)
        THEN Went([nd EXCEPT !.description =
                      @ \o (IF val # <<>> THEN <<val>> ELSE <<>>) \o blk.block], blk.lines)
        ELSE IF StartsWith(line, <<"Returns", ":">>)
        THEN Went([nd EXCEPT !.returns =
                      @ \o (IF val # <<>> THEN <<val>> ELSE <<>>) \o blk.block], blk.lines)
        ELSE IF StartsWith(line, <<"Custom", ":">>)
        THEN Went([nd EXCEPT !.customs = Append(@, <<val, blk.block>>)], blk.lines)
        ELSE IF fig.ok
        THEN Went([nd EXCEPT !.figures =
                      IF fig.plural THEN @ \o EachLine(blk.block, figtype)
                      ELSE Append(@, <<fig.title, blk.block, figtype>>)], blk.lines)
        ELSE IF StartsWith(line, <<"Arguments", ":">>)
        THEN LeafNode_arguments(nd, blk)
        ELSE IF StartsWith(line, <<"Extra", SP, "Anchors", ":">>)
                \/ StartsWith(line, <<"Anchors", ":">>)
        THEN IF anch.bad # <<>>
             THEN Died([nd EXCEPT !.anchors = anch.anchors], blk.lines,
                       <<<<"Error: bad anchor line:">>, anch.bad[1]>>)
             ELSE Went([nd EXCEPT !.anchors = anch.anchors], blk.lines)
        ELSE IF StartsWith(line, <<"Side", SP, "Effects", ":">>)
        THEN Went([nd EXCEPT !.side_effects = @ \o blk.block], blk.lines)
        ELSE IF ex.ok
        THEN Went([nd EXCEPT !.examples =
                      IF ex.plural THEN @ \o EachLine(blk.block, extype)
                      ELSE Append(@, <<ex.title, blk.block, extype>>)], blk.lines)
        ELSE LeafNode_unrecognized(nd, line, rest)

\* line.lstrip("/").strip() == "" (lines 364 and 706)
IsBlankLine(line) == strip(LStripChars(line, {"/"})) = <<>>

\* The loop tests of lines 360-362 (and 702-704): the loop goes on
LoopGoesOn(ls, pfx) ==
    ls # <<>> /\ ~(pfx # <<>> /\ ~StartsWith(Head(ls), strip(pfx)))

-----------------------------------------------------------------------------
(* Section *)

Section_init == [name |-> <<>>, description |-> <<>>, leaf_nodes |-> <<>>, figures |-> <<>>]

Section_match_line(line, pfx) == StartsWith(line, pfx \o <<"Section", ":", SP>>)

-----------------------------------------------------------------------------
(* LibFile *)

\* The tokens that consist of characters of [A-Z_0-9] only
UpperWords == {"FOO", "BAR", "_", "1", "S", "P", "Q", "2D", "3D", "DEPRECATED", "NORENDER"}

\* constpat, ^([A-Z_0-9][A-Z_0-9]*) *=.*  // (.*$), matched against a raw line:
\* [ok, name (group 1), desc (group 2)]
ConstPat(line) ==
    LET body == IF line # <<>> /\ line[Len(line)] = NL THEN Take(line, Len(line) - 1) ELSE line
        n == LeadCount(body, UpperWords)
        afterid == Drop(body, n)
        eq == LeadCount(afterid, {SP}) + 1
        aftereq == Drop(afterid, eq)
        k == RFind(aftereq, <<SP, SP, "/", "/", SP>>)
        ok == /\ ~Contains(body, <<NL>>)
              /\ n >= 1
              /\ Len(afterid) >= eq
              /\ afterid[eq] = "="
              /\ k # 0
    IN  [ok |-> ok,
         name |-> IF ok THEN Take(body, n) ELSE <<>>,
         desc |-> IF ok THEN Drop(aftereq, k + 4) ELSE <<>>]

\* The exit statuses: sys.exit(-2) of the parsers, sys.exit(0) of main, and
\* the status the interpreter exits with on an uncaught exception.  The
\* variable exitcode is <<>> while the process runs, then <<status>>.
ParseErrorExit == -2
NormalExit == 0
UncaughtExit == 1

\* The loop of lines 806-817: the raw lines in front of the cursor are
\* consumed, each bare constant among them becoming a node of currsect.
RECURSIVE LibFile_scan(_, _, _, _)
LibFile_scan(ls, pfx, cur, sects) ==
    IF ~(ls # <<>> /\ pfx # <<>> /\ ~StartsWith(Head(ls), strip(pfx)))
    THEN [lines |-> ls, currsect |-> cur, sections |-> sects]
    ELSE LET m == ConstPat(Head(ls))
             sects1 == IF cur = 0 THEN Append(sects, Section_init) ELSE sects
             cur1 == IF cur = 0 THEN Len(sects1) ELSE cur
             nd == [LeafNode_init EXCEPT !.extype = <<"Constant">>,
                                         !.name = strip(m.name),
                                         !.description = <<strip(m.desc)>>]
         IN  IF m.ok
             THEN LibFile_scan(Tail(ls), pfx, cur1,
                               [sects1 EXCEPT ![cur1].leaf_nodes = Append(@, nd)])
             ELSE LibFile_scan(Tail(ls), pfx, cur, sects)

Running == exitcode = <<>>

\* line 805: while lines
LoopTest ==
    /\ Running /\ pc = "loop"
    /\ pc' = IF lines # <<>> THEN "scan" ELSE "gen_md"
    /\ iterlines' = Len(lines)
    /\ UNCHANGED <<prefix, input, imgprc, db, todo, rendered,
                   lines, blanks, block, currsect, sections,
                   deprecated_section, libname, libdesc, includes, commoncode,
                   sect, node, blankcnt, stdout, exitcode, outfile>>

\* lines 806-817
Scan ==
    /\ Running /\ pc = "scan"
    /\ LET r == LibFile_scan(lines, prefix, currsect, sections)
       IN  /\ lines' = r.lines
           /\ currsect' = r.currsect
           /\ sections' = r.sections
    /\ pc' = "libfile"
    /\ UNCHANGED <<prefix, input, iterlines, imgprc, db, todo, rendered,
                   blanks, block, deprecated_section, libname,
                   libdesc, includes, commoncode, sect, node, blankcnt, stdout,
                   exitcode, outfile>>

\* lines 819-825; the unpacking of line 822 raises ValueError when the
\* rstripped header has lost its ": "
LibFileHeader ==
    /\ Running /\ pc = "libfile"
    /\ IF lines # <<>> /\ StartsWith(Head(lines), prefix \o <<"LibFile", ":", SP>>)
       THEN LET kv == Split1(rstrip(Head(lines)), <<":", SP>>)
                blk == get_comment_block(Tail(lines), prefix, 2)
            IN  IF Len(kv) < 2
                THEN /\ exitcode' = <<UncaughtExit>>
                     /\ lines' = Tail(lines)
                     /\ pc' = "exited"
                     /\ UNCHANGED <<libname, libdesc>>
                ELSE /\ libname' = strip(kv[2])
                     /\ libdesc' = libdesc \o blk.block
                     /\ lines' = blk.lines
                     /\ pc' = "includes"
                     /\ UNCHANGED exitcode
       ELSE /\ pc' = "includes"
            /\ UNCHANGED <<libname, libdesc, lines, exitcode>>
    /\ UNCHANGED <<prefix, input, iterlines, imgprc, db, todo, rendered,
                   blanks, block, currsect, sections,
                   deprecated_section, includes, commoncode, sect, node,
                   blankcnt, stdout, outfile>>

\* lines 827-831
Includes ==
    /\ Running /\ pc = "includes"
    /\ IF lines # <<>> /\ StartsWith(Head(lines), prefix \o <<"Includes", ":">>)
       THEN LET blk == get_comment_block(Tail(lines), prefix, 1)
            IN  /\ includes' = includes \o blk.block
                /\ lines' = blk.lines
       ELSE UNCHANGED <<includes, lines>>
    /\ pc' = "commoncode"
    /\ UNCHANGED <<prefix, input, iterlines, imgprc, db, todo, rendered,
                   blanks, block, currsect, sections,
                   deprecated_section, libname, libdesc, commoncode, sect, node,
                   blankcnt, stdout, exitcode, outfile>>

\* lines 833-837
CommonCode ==
    /\ Running /\ pc = "commoncode"
    /\ IF lines # <<>> /\ StartsWith(Head(lines), prefix \o <<"CommonCode", ":">>)
       THEN LET blk == get_comment_block(Tail(lines), prefix, 1)
            IN  /\ commoncode' = commoncode \o blk.block
                /\ lines' = blk.lines
       ELSE UNCHANGED <<commoncode, lines>>
    /\ pc' = "section"
    /\ UNCHANGED <<prefix, input, iterlines, imgprc, db, todo, rendered,
                   blanks, block, currsect, sections,
                   deprecated_section, libname, libdesc, includes, sect, node,
                   blankcnt, stdout, exitcode, outfile>>

\* lines 839-842 and the head of Section.parse_lines, lines 695-701
SectionHeader ==
    /\ Running /\ pc = "section"
    /\ IF lines # <<>> /\ Section_match_line(Head(lines), prefix)
       THEN LET kv == Split1(rstrip(Head(lines)), <<":", SP>>)
                blk == get_comment_block(Tail(lines), prefix, 2)
            IN  IF Len(kv) < 2
                THEN /\ exitcode' = <<UncaughtExit>>
                     /\ lines' = Tail(lines)
                     /\ pc' = "exited"
                     /\ UNCHANGED <<sect, blankcnt>>
                ELSE /\ sect' = [Section_init EXCEPT !.name = strip(kv[2]),
                                                     !.description = blk.block]
                     /\ lines' = blk.lines
                     /\ blankcnt' = 0
                     /\ pc' = "sect_loop"
                     /\ UNCHANGED exitcode
       ELSE /\ pc' = "leaf"
            /\ UNCHANGED <<sect, lines, blankcnt, exitcode>>
    /\ UNCHANGED <<prefix, input, iterlines, imgprc, db, todo, rendered,
                   blanks, block, currsect, sections,
                   deprecated_section, libname, libdesc, includes, commoncode,
                   node, stdout, outfile>>

\* One iteration of the loop of Section.parse_lines, lines 702-725.  A Figure
\* header without (TYPE) reads self.figtype, which no Section has: the
\* AttributeError is not caught.
SectionIter ==
    /\ Running /\ pc = "sect_loop"
    /\ IF ~LoopGoesOn(lines, prefix)
       THEN /\ pc' = "sect_ret"
            /\ UNCHANGED <<lines, blankcnt, sect, exitcode>>
       ELSE LET popped == rstrip(Head(lines))
                line == Drop(popped, Len(prefix))
                m == HeaderPat("Figure", line)
                blk == get_comment_block(Tail(lines), prefix, 1)
            IN  IF IsBlankLine(popped)
                THEN /\ lines' = Tail(lines)
                     /\ blankcnt' = blankcnt + 1
                     /\ pc' = IF blankcnt + 1 >= 2 THEN "sect_ret" ELSE "sect_loop"
                     /\ UNCHANGED <<sect, exitcode>>
                ELSE IF ~m.ok
                THEN /\ lines' = Tail(lines)
                     /\ blankcnt' = 0
                     /\ pc' = "sect_loop"
                     /\ UNCHANGED <<sect, exitcode>>
                ELSE IF m.type = <<>>
                THEN /\ lines' = blk.lines
                     /\ blankcnt' = 0
                     /\ exitcode' = <<UncaughtExit>>
                     /\ pc' = "exited"
                     /\ UNCHANGED sect
                ELSE /\ lines' = blk.lines
                     /\ blankcnt' = 0
                     /\ sect' = [sect EXCEPT !.figures =
                                    IF m.plural THEN @ \o EachLine(blk.block, m.type)
                                    ELSE Append(@, <<m.title, blk.block, m.type>>)]
                     /\ pc' = "sect_loop"
                     /\ UNCHANGED exitcode
    /\ UNCHANGED <<prefix, input, iterlines, imgprc, db, todo, rendered,
                   blanks, block, currsect, sections,
                   deprecated_section, libname, libdesc, includes, commoncode,
                   node, stdout, outfile>>

\* lines 843-844
SectionReturn ==
    /\ Running /\ pc = "sect_ret"
    /\ sections' = Append(sections, sect)
    /\ currsect' = Len(sections) + 1
    /\ pc' = "leaf"
    /\ UNCHANGED <<prefix, input, iterlines, imgprc, db, todo, rendered,
                   lines, blanks, block, deprecated_section,
                   libname, libdesc, includes, commoncode, sect, node, blankcnt,
                   stdout, exitcode, outfile>>

\* lines 846-848 and line 357
LeafStart ==
    /\ Running /\ pc = "leaf"
    /\ IF lines # <<>> /\ LeafNode_match_line(Head(lines), prefix)
       THEN /\ node' = LeafNode_init
            /\ blankcnt' = 0
            /\ pc' = "leaf_loop"
       ELSE /\ pc' = "discard"
            /\ UNCHANGED <<node, blankcnt>>
    /\ UNCHANGED <<prefix, input, iterlines, imgprc, db, todo, rendered,
                   lines, blanks, block, currsect, sections,
                   deprecated_section, libname, libdesc, includes, commoncode,
                   sect, stdout, exitcode, outfile>>

\* The loop of LeafNode.parse_lines with the node ended at the third blank line
LeafIter_threeblanks ==
    /\ Running /\ pc = "leaf_loop"
    /\ IF ~LoopGoesOn(lines, prefix)
       THEN /\ pc' = "leaf_ret"
            /\ UNCHANGED <<lines, blankcnt, node, stdout, exitcode>>
       ELSE LET popped == rstrip(Head(lines))
                r == LeafNode_dispatch(node, popped, Tail(lines), prefix)
            IN  IF IsBlankLine(popped)
                THEN /\ lines' = Tail(lines)
                     /\ blankcnt' = blankcnt + 1
                     /\ pc' = IF blankcnt + 1 >= 3 THEN "leaf_ret" ELSE "leaf_loop"
                     /\ UNCHANGED <<node, stdout, exitcode>>
                ELSE /\ lines' = r.lines
                     /\ blankcnt' = 0
                     /\ node' = r.node
                     /\ stdout' = stdout \o r.err
                     /\ exitcode' = IF r.err # <<>> THEN <<ParseErrorExit>> ELSE exitcode
                     /\ pc' = IF r.err # <<>> THEN "exited" ELSE "leaf_loop"
    /\ UNCHANGED <<prefix, input, iterlines, imgprc, db, todo, rendered,
                   blanks, block, currsect, sections,
                   deprecated_section, libname, libdesc, includes, commoncode,
                   sect, outfile>>

\* One iteration of the loop of LeafNode.parse_lines, lines 360-507
LeafIter ==
    /\ Running /\ pc = "leaf_loop"
    /\ IF ~LoopGoesOn(lines, prefix)
       THEN /\ pc' = "leaf_ret"
            /\ UNCHANGED <<lines, blankcnt, node, stdout, exitcode>>
       ELSE LET popped == rstrip(Head(lines))
                r == LeafNode_dispatch(node, popped, Tail(lines), prefix)
            IN  IF IsBlankLine(popped)
                THEN /\ lines' = Tail(lines)
                     /\ blankcnt' = blankcnt + 1
                     /\ pc' = IF blankcnt + 1 >= 2 THEN "leaf_ret" ELSE "leaf_loop"
                     /\ UNCHANGED <<node, stdout, exitcode>>
                ELSE /\ lines' = r.lines
                     /\ blankcnt' = 0
                     /\ node' = r.node
                     /\ stdout' = stdout \o r.err
                     /\ exitcode' = IF r.err # <<>> THEN <<ParseErrorExit>> ELSE exitcode
                     /\ pc' = IF r.err # <<>> THEN "exited" ELSE "leaf_loop"
    /\ UNCHANGED <<prefix, input, iterlines, imgprc, db, todo, rendered,
                   blanks, block, currsect, sections,
                   deprecated_section, libname, libdesc, includes, commoncode,
                   sect, outfile>>

DEPRECATED == <<"DEPRECATED">>

\* the status compared with == instead of startswith
IsDeprecated_exact(nd) == nd.status = DEPRECATED

\* node.status.startswith("DEPRECATED"), line 850
IsDeprecated(nd) == StartsWith(nd.status, DEPRECATED)

\* lines 850-861
LeafAttach ==
    /\ Running /\ pc = "leaf_ret"
    /\ IF IsDeprecated(node)
       THEN /\ deprecated_section' =
                 LET d == IF deprecated_section = <<>>
                          THEN [Section_init EXCEPT !.name = <<"Deprecations">>]
                          ELSE deprecated_section[1]
                 IN  <<[d EXCEPT !.leaf_nodes = Append(@, node)]>>
            /\ UNCHANGED <<currsect, sections>>
       ELSE LET sects1 == IF currsect = 0 THEN Append(sections, Section_init) ELSE sections
                cur1 == IF currsect = 0 THEN Len(sects1) ELSE currsect
            IN  /\ currsect' = cur1
                /\ sections' = [sects1 EXCEPT ![cur1].leaf_nodes = Append(@, node)]
                /\ UNCHANGED deprecated_section
    /\ pc' = "discard"
    /\ UNCHANGED <<prefix, input, iterlines, imgprc, db, todo, rendered,
                   lines, blanks, block, libname, libdesc,
                   includes, commoncode, sect, node, blankcnt, stdout, exitcode,
                   outfile>>

\* lines 862-863
Discard ==
    /\ Running /\ pc = "discard"
    /\ lines' = IF lines # <<>> THEN Tail(lines) ELSE lines
    /\ pc' = "loop"
    /\ UNCHANGED <<prefix, input, iterlines, imgprc, db, todo, rendered,
                   blanks, block, currsect, sections,
                   deprecated_section, libname, libdesc, includes, commoncode,
                   sect, node, blankcnt, stdout, exitcode, outfile>>

\* str.replace(old, new) for a one-character old: every occurrence of the
\* character ch replaced by the characters of rep
RECURSIVE Replace(_, _, _)
Replace(txt, ch, rep) ==
    IF txt = <<>> THEN <<>>
    ELSE (IF Head(txt) = ch THEN rep ELSE <<Head(txt)>>) \o Replace(Tail(txt), ch, rep)

Esc_underscore == <<"\\", "_">>
Esc_amp == <<"&", "a", "m", "p", ";">>
Esc_lt == <<"&", "l", "t", ";">>
Esc_gt == <<"&", "g", "t", ";">>

\* The four replacements with the "&" replaced last, after "<" and ">"
EscapeChars_amplast(txt) ==
    Replace(Replace(Replace(Replace(txt, "_", Esc_underscore), "<", Esc_lt),
                    ">", Esc_gt), "&", Esc_amp)

\* txt.replace('_', '\_').replace('&', '&amp;').replace('<', '&lt;')
\* .replace('>', '&gt;') of lines 286 and 290: four passes, in this order
EscapeChars(txt) ==
    Replace(Replace(Replace(Replace(txt, "_", Esc_underscore), "&", Esc_amp),
                    "<", Esc_lt), ">", Esc_gt)

\* The token of the backquote character, which a string of this module
\* cannot hold itself
Backquote == "backquote"

\* mkdn_esc, lines 280-292: the text outside backquoted spans escaped, the
\* spans kept as they are
RECURSIVE mkdn_esc(_)
mkdn_esc(txt) ==
    LET i == Find(txt, <<Backquote>>)
        j == IF i = 0 THEN 0 ELSE Find(Drop(txt, i), <<Backquote>>)
    IN  IF txt = <<>> THEN <<>>
        ELSE IF i # 0 /\ j # 0
        THEN EscapeChars(Take(txt, i - 1)) \o SubSeq(txt, i, i + j)
                 \o mkdn_esc(Drop(txt, i + j))
        ELSE EscapeChars(txt)

\* self.leaftype.replace("&", "/") of line 515
SlashForAmp(txt) == [i \in 1..Len(txt) |-> IF txt[i] = "&" THEN "/" ELSE txt[i]]

\* "%d" % n
Digits == <<"0", "1", "2", "3", "4", "5", "6", "7", "8", "9">>
RECURSIVE Dec(_)
Dec(n) == IF n < 10 THEN <<Digits[n + 1]>> ELSE Dec(n \div 10) \o <<Digits[(n % 10) + 1]>>

\* sep.join(parts)
RECURSIVE Join(_, _)
Join(parts, sep) ==
    IF parts = <<>> THEN <<>>
    ELSE IF Len(parts) = 1 THEN parts[1]
    ELSE parts[1] \o sep \o Join(Tail(parts), sep)

\* The tokens that are one character of punctuation; every other token is a
\* word of letters and digits
PunctTokens ==
    {SP, NL, "/", "\\", "(", ")", "[", "]", "{", "}", ":", ";", ",", ".", "-", "=",
     "&", "<", ">", "|", "#", "*", "!", "'", Backquote}

\* fileroot (line 931) and imgroot (lines 917-918, with its final "/") of the
\* run: docs_gen -I images lib.scad
FileRoot == <<"lib">>
ImgRoot == <<"images", "/">>

\* re.sub(r"[^A-Za-z0-9_]", "", self.name) of lines 538 and 635
san_name(name) == SelectSeq(name, LAMBDA t : t \notin PunctTokens)

\* str.lower() on a token
lower(t) ==
    CASE t = "S" -> "s" [] t = "P" -> "p" [] t = "Q" -> "q"
      [] t = "FOO" -> "foo" [] t = "BAR" -> "bar"
      [] t = "DEPRECATED" -> "deprecated" [] t = "NORENDER" -> "norender"
      [] t = "Deprecations" -> "deprecations"
      [] t = "2D" -> "2d" [] t = "3D" -> "3d"
      [] OTHER -> t

\* get_header_link, lines 259-261
get_header_link(name) ==
    LET low == [i \in 1..Len(name) |-> lower(name[i])]
        kept == SelectSeq(low, LAMBDA t : t \notin (PunctTokens \ {SP, "-"}))
    IN  [i \in 1..Len(kept) |-> IF kept[i] = SP THEN "-" ELSE kept[i]]

\* toc_entry, lines 264-277; count = 0 stands for count=None
toc_entry(name, indent, count) ==
    LET lname == (IF count # 0 THEN Dec(count) \o <<".", SP>> ELSE <<>>) \o name
        shown == IF name # <<>> /\ name[Len(name)] \in {")", "}", "]"}
                 THEN <<Backquote>> \o SelectSeq(name, LAMBDA t : t # "\\") \o <<Backquote>>
                 ELSE name
    IN  indent \o (IF count # 0 THEN Dec(count) \o <<".">> ELSE <<"-">>)
            \o <<SP, "[">> \o shown \o <<"]", "(", "#">> \o get_header_link(lname) \o <<")">>

\* "gif" if "Spin" in extype else "png"
ImgExt(type) == IF Contains(type, <<"Spin">>) THEN "gif" ELSE "png"

\* The script of an image, lines 544-553, 640-649 and 774-783: the includes,
\* the common code and the code, a line that begins with "--" without it
ImageCode(code) ==
    includes \o commoncode
        \o [i \in 1..Len(code) |->
                IF StartsWith(strip(code[i]), <<"-", "-">>)
                THEN Drop(strip(code[i]), 2) ELSE code[i]]

\* The lines of code an example shows, lines 657-659
ShownCode(code) ==
    LET shown == SelectSeq(code, LAMBDA l : ~StartsWith(strip(l), <<"-", "-">>))
    IN  [i \in 1..Len(shown) |-> <<SP, SP, SP, SP>> \o shown[i]]

\* What gen_md does, in order: out.append(line) and
\* imgprc.add_image(fileroot+".scad", imgfile, icode, extype) (lines 131-132)
Out(line) == <<"out", line>>
AddImage(imgfile, code, type) ==
    <<"add_image", <<FileRoot \o <<".", "scad">>, imgfile, ImageCode(code), type>>>>

Outs(ls) == [i \in 1..Len(ls) |-> Out(ls[i])]

\* The lines written and the images requested by a sequence of such steps
IsOut(ev) == ev[1] = "out"
IsAddImage(ev) == ev[1] = "add_image"
Payloads(evs) == [i \in 1..Len(evs) |-> evs[i][2]]
Written(evs) == Payloads(SelectSeq(evs, IsOut))
Requested(evs) == Payloads(SelectSeq(evs, IsAddImage))

EachEsc(ls) == [i \in 1..Len(ls) |-> mkdn_esc(ls[i])]

\* "{0:15s}".format(txt)
Pad15(txt) == txt \o [i \in 1..(15 - Len(txt)) |-> SP]

\* " / ".join("`{}`".format(x.strip()) for x in argname.replace("|","/").split("/"))
ArgNames(argname) ==
    LET parts == SplitAll(Replace(argname, "|", <<"/">>), <<"/">>)
    IN  Join([i \in 1..Len(parts) |-> <<Backquote>> \o strip(parts[i]) \o <<Backquote>>],
             <<SP, "/", SP>>)

\* The rows of a table of arguments or anchors, lines 583-589, 595-601, 611-618
ArgRows(args) ==
    [i \in 1..Len(args) |->
        Pad15(mkdn_esc(ArgNames(args[i][1]))) \o <<SP, "|", SP>> \o mkdn_esc(args[i][2])]

\* A description, lines 745-753 and 872-881: the lines inside ``` blocks and
\* the lines indented by four as they are, the others escaped
RECURSIVE Description_gen_md(_, _)
Description_gen_md(desc, in_block) ==
    IF desc = <<>> THEN <<>>
    ELSE LET line == Head(desc)
             inb == IF StartsWith(line, <<Backquote, Backquote, Backquote>>)
                    THEN ~in_block ELSE in_block
         IN  <<IF inb \/ StartsWith(line, <<SP, SP, SP, SP>>) THEN line ELSE mkdn_esc(line)>>
                 \o Description_gen_md(Tail(desc), inb)

\* LeafNode.gen_md, lines 532-565: the figures of a leaf.  Every figure is
\* requested and referenced, whatever its type.
LeafNode_figures_md(nd) ==
    LET imgfile(k) == san_name(nd.name) \o <<"_", "fig">> \o Dec(k)
                          \o <<".", ImgExt(nd.figures[k][3])>>
    IN  Flatten([k \in 1..Len(nd.figures) |->
            <<AddImage(imgfile(k), nd.figures[k][2], nd.figures[k][3]),
              Out(<<"**Figure ">> \o Dec(k) \o <<":**">>
                      \o (IF nd.figures[k][1] # <<>>
                          THEN <<SP>> \o mkdn_esc(nd.figures[k][1]) ELSE <<>>)),
              Out(<<>>),
              Out(<<"![">> \o mkdn_esc(nd.name) \o <<" Figure ">> \o Dec(k)
                      \o <<"](">> \o ImgRoot \o imgfile(k) \o <<")">>),
              Out(<<>>)>>])

\* LeafNode.gen_md, lines 626-671: the examples of a leaf.  An example whose
\* type holds NORENDER is not requested and not referenced; one whose type
\* holds Hide is requested but not shown.
LeafNode_examples_md(nd) ==
    LET n == Len(nd.examples)
        type(k) == nd.examples[k][3]
        norender(k) == Contains(type(k), <<"NORENDER">>)
        imgfile(k) == san_name(nd.name) \o (IF k > 1 THEN <<"_">> \o Dec(k) ELSE <<>>)
                          \o <<".", ImgExt(type(k))>>
        extitle(k) == (IF n < 2 THEN <<"**Example:**">>
                       ELSE <<"**Example ">> \o Dec(k) \o <<":**">>)
                          \o (IF nd.examples[k][1] # <<>>
                              THEN <<SP>> \o mkdn_esc(nd.examples[k][1]) ELSE <<>>)
    IN  Flatten([k \in 1..n |->
            (IF norender(k) THEN <<>>
             ELSE <<AddImage(imgfile(k), nd.examples[k][2], type(k))>>)
            \o (IF Contains(type(k), <<"Hide">>) THEN <<>>
                ELSE Outs(<<extitle(k), <<>>>>
                          \o [i \in 1..Len(includes) |-> <<SP, SP, SP, SP>> \o includes[i]]
                          \o ShownCode(nd.examples[k][2])
                          \o <<<<>>>>
                          \o (IF norender(k) THEN <<>>
                              ELSE <<<<"![">> \o mkdn_esc(nd.name) \o <<" Example">>
                                         \o (IF n > 1 THEN <<SP>> \o Dec(k) ELSE <<>>)
                                         \o <<"](">> \o ImgRoot \o imgfile(k) \o <<")">>,
                                     <<>>>>)))])

\* A titled block of escaped lines, as the Description and the Returns
Titled(title, ls) == IF ls = <<>> THEN <<>> ELSE <<title>> \o EachEsc(ls) \o <<<<>>>>

\* LeafNode.gen_md, lines 511-674: what it writes and requests for one leaf
LeafNode_gen_md(nd) ==
    Outs((IF nd.name # <<>>
          THEN <<<<"### ">> \o mkdn_esc(nd.name),
                 <<"**Type:** ">> \o mkdn_esc(SlashForAmp(nd.leaftype)), <<>>>>
          ELSE <<>>)
         \o (IF nd.status # <<>>
             THEN <<<<"**">> \o mkdn_esc(nd.status) \o <<"**">>, <<>>>> ELSE <<>>)
         \o Flatten([i \in 1..Len(nd.usages) |->
               <<<<"**Usage:** ">> \o mkdn_esc(nd.usages[i][1])>>
                   \o [j \in 1..Len(nd.usages[i][2]) |->
                          <<"-", SP>> \o mkdn_esc(nd.usages[i][2][j])]
                   \o <<<<>>>>])
         \o Titled(<<"**Description:**">>, nd.description))
    \o LeafNode_figures_md(nd)
    \o Outs(Titled(<<"**Returns:**">>, nd.returns)
         \o Flatten([i \in 1..Len(nd.customs) |->
               <<<<"**">> \o nd.customs[i][1] \o <<":**">>>>
                   \o EachEsc(nd.customs[i][2]) \o <<<<>>>>])
         \o (IF nd.arguments # <<>> \/ nd.named_arguments # <<>>
             THEN <<<<"**Arguments:**">>>> ELSE <<>>)
         \o (IF nd.arguments # <<>>
             THEN <<<<"<abbr title=\"These args can be used by position or by name.\">By&nbsp;Position</abbr> | What it does">>,
                    <<"---------------- | ------------------------------">>>>
                      \o ArgRows(nd.arguments) \o <<<<>>>>
             ELSE <<>>)
         \o (IF nd.named_arguments # <<>>
             THEN <<<<"<abbr title=\"These args must be used by name, ie: name=value\">By&nbsp;Name</abbr>   | What it does">>,
                    <<"-------------- | ------------------------------">>>>
                      \o ArgRows(nd.named_arguments) \o <<<<>>>>
             ELSE <<>>)
         \o (IF nd.side_effects # <<>>
             THEN <<<<"**Side Effects:**">>>>
                      \o [i \in 1..Len(nd.side_effects) |->
                             <<"-", SP>> \o mkdn_esc(nd.side_effects[i])]
                      \o <<<<>>>>
             ELSE <<>>)
         \o (IF nd.anchors # <<>>
             THEN <<<<"Anchor Name     | Description">>,
                    <<"--------------- | ------------------------------">>>>
                      \o ArgRows(nd.anchors) \o <<<<>>>>
             ELSE <<>>)
         \o (IF nd.topics # <<>>
             THEN <<<<"**Related Topics:** ">>
                       \o Join([i \in 1..Len(nd.topics) |->
                                   <<"[">> \o mkdn_esc(nd.topics[i]) \o <<"](Topics#">>
                                       \o mkdn_esc(nd.topics[i]) \o <<")">>],
                               <<",", SP>>),
                    <<>>>>
             ELSE <<>>))
    \o LeafNode_examples_md(nd)
    \o Outs(<<<<"-", "-", "-">>, <<>>>>)

\* for node in self.leaf_nodes: out += node.gen_md(...), lines 788-789
Leaves_gen_md(nodes) == Flatten([i \in 1..Len(nodes) |-> LeafNode_gen_md(nodes[i])])

\* Section.gen_md, lines 754-786: the figures of a section, numbered by the
\* class counter Section.fignum (fignum is its value before).  A figure of
\* type NORENDER has its title only: no reference, no request.
Section_figures_md(s, fignum) ==
    LET num(k) == fignum + k
        type(k) == s.figures[k][3]
        imgfile(k) == <<"figure">> \o Dec(num(k)) \o <<".", ImgExt(type(k))>>
    IN  Flatten([k \in 1..Len(s.figures) |->
            <<Out(<<"**Figure ">> \o Dec(num(k)) \o <<":**">>
                      \o (IF s.figures[k][1] # <<>>
                          THEN <<SP>> \o mkdn_esc(s.figures[k][1]) ELSE <<>>)),
              Out(<<>>)>>
            \o (IF type(k) # <<"NORENDER">>
                THEN <<Out(<<"![">> \o mkdn_esc(s.name) \o <<" Figure ">> \o Dec(num(k))
                               \o <<"](">> \o ImgRoot \o imgfile(k) \o <<")">>),
                       Out(<<>>),
                       AddImage(imgfile(k), s.figures[k][2], type(k))>>
                ELSE <<>>)])

\* Section.gen_md, lines 739-790
Section_gen_md(s, count, fignum) ==
    Outs((IF s.name # <<>>
          THEN <<<<"# ">> \o Dec(count) \o <<".", SP>> \o mkdn_esc(s.name), <<>>>>
          ELSE <<>>)
         \o (IF s.description # <<>>
             THEN Description_gen_md(s.description, FALSE) \o <<<<>>>> ELSE <<>>))
    \o Section_figures_md(s, fignum)
    \o Leaves_gen_md(s.leaf_nodes)

\* Section.gen_md_toc, lines 728-737
Section_gen_md_toc(s, count) ==
    (IF s.name # <<>> THEN <<toc_entry(s.name, <<>>, count)>> ELSE <<>>)
    \o [i \in 1..Len(s.leaf_nodes) |->
           toc_entry(s.leaf_nodes[i].name,
                     IF s.name # <<>> THEN <<SP, SP, SP, SP>> ELSE <<>>, 0)]
    \o <<<<>>>>

\* The number of figures of the sections before the i-th: Section.fignum when
\* the i-th section is rendered
RECURSIVE FiguresBefore(_, _)
FiguresBefore(sects, i) ==
    IF i <= 1 THEN 0 ELSE FiguresBefore(sects, i - 1) + Len(sects[i - 1].figures)

\* The loops of lines 905-911 over the sections and the deprecated section
Sections_gen_md(sects) ==
    Flatten([i \in 1..Len(sects) |-> Section_gen_md(sects[i], i, FiguresBefore(sects, i))])

\* LibFile.gen_md, lines 866-913: what it writes and requests, in order
LibFile_gen_md ==
    Outs((IF libname # <<>>
          THEN <<<<"# Library File ">> \o mkdn_esc(libname), <<>>>> ELSE <<>>)
         \o (IF libdesc # <<>>
             THEN Description_gen_md(libdesc, FALSE) \o <<<<>>>> ELSE <<>>)
         \o (IF includes # <<>>
             THEN <<<<"To use, add the following lines to the beginning of your file:">>,
                    <<Backquote, Backquote, Backquote, "openscad">>>>
                      \o [i \in 1..Len(includes) |-> <<SP, SP, SP, SP>> \o includes[i]]
                      \o <<<<Backquote, Backquote, Backquote>>, <<>>>>
             ELSE <<>>)
         \o (IF libname # <<>> \/ libdesc # <<>>
             THEN <<<<"-", "-", "-">>, <<>>>> ELSE <<>>)
         \o (IF sections \o deprecated_section # <<>>
             THEN <<<<"# Table of Contents">>, <<>>>>
                      \o Flatten([i \in 1..Len(sections \o deprecated_section) |->
                                     Section_gen_md_toc((sections \o deprecated_section)[i], i)])
                      \o <<<<"-", "-", "-">>, <<>>>>
             ELSE <<>>))
    \o Sections_gen_md(sections \o deprecated_section)

\* processFile lines 925-939 and main line 972
GenMd ==
    /\ Running /\ pc = "gen_md"
    /\ \E md \in {LibFile_gen_md} :
          /\ outfile' = [opened |-> TRUE, data |-> Written(md)]
          /\ imgprc' = [imgprc EXCEPT !.examples = @ \o Requested(md)]
    /\ exitcode' = <<NormalExit>>
    /\ pc' = "exited"
    /\ UNCHANGED <<prefix, input, iterlines, db, todo, rendered,
                   lines, blanks, block, currsect, sections,
                   deprecated_section, libname, libdesc, includes, commoncode,
                   sect, node, blankcnt, stdout>>

Next ==
    \/ LoopTest
    \/ Scan
    \/ LibFileHeader
    \/ Includes
    \/ CommonCode
    \/ SectionHeader
    \/ SectionIter
    \/ SectionReturn
    \/ LeafStart
    \/ LeafIter
    \/ LeafAttach
    \/ Discard
    \/ GenMd

-----------------------------------------------------------------------------
(* Inputs *)

SlashPrefix == <<"/", "/", SP>>     \* prefix="// ", main with --comments-only
NoPrefix == <<>>                    \* prefix="", main without it

\* A header line, a block line (indented by two) and a blank line under pfx
Hdr(pfx, body) == pfx \o body \o <<NL>>
Blk(pfx, body) == pfx \o <<SP, SP>> \o body \o <<NL>>
Blank(pfx) == strip(pfx) \o <<NL>>

L_Section(pfx) == Hdr(pfx, <<"Section", ":", SP, "S">>)
L_Text(pfx) == Blk(pfx, <<"text">>)
L_Figure2D(pfx) == Hdr(pfx, <<"Figure", "(", "2D", ")", ":", SP, "t">>)
L_Function(pfx) == Hdr(pfx, <<"Function", ":", SP, "foo">>)
L_Module(pfx) == Hdr(pfx, <<"Module", ":", SP, "foo">>)
L_Constant(pfx) == Hdr(pfx, <<"Constant", ":", SP, "FOO">>)
L_FunctionModule(pfx) == Hdr(pfx, <<"Function", "&", "Module", ":", SP, "foo">>)
L_Deprecated(pfx) == Hdr(pfx, <<"Status", ":", SP, "DEPRECATED", SP, "use", SP, "bar">>)
L_LibFile(pfx) == Hdr(pfx, <<"LibFile", ":", SP, "lib">>)
L_Includes(pfx) == Hdr(pfx, <<"Includes", ":">>)
L_CommonCode(pfx) == Hdr(pfx, <<"CommonCode", ":">>)
L_Usage(pfx) == Hdr(pfx, <<"Usage", ":">>)
L_UsageTitled(pfx) == Hdr(pfx, <<"Usage", ":", SP, "t">>)
L_UsageLine(pfx) == Blk(pfx, <<"foo", "(", "x", ")">>)
L_DashUsageLine(pfx) == Blk(pfx, <<"-", SP, "foo", "(", "x", ")">>)
L_DashLine(pfx) == Hdr(pfx, <<"-", SP, "foo", "(", "x", ")">>)
L_Arguments(pfx) == Hdr(pfx, <<"Arguments", ":">>)
L_ArgX(pfx) == Blk(pfx, <<"x", SP, "=", SP, "the", SP, "x", SP, "value">>)
L_ArgY(pfx) == Blk(pfx, <<"y", SP, "=", SP, "the", SP, "y", SP, "value">>)
L_ArgSep(pfx) == Blk(pfx, <<"-", "-", "-">>)
L_ArgNoEq(pfx) == Blk(pfx, <<"z", SP, "the", SP, "z", SP, "value">>)
L_Example(pfx) == Hdr(pfx, <<"Example", ":", SP, "t">>)
L_Examples(pfx) == Hdr(pfx, <<"Example", "s", ":">>)
L_Example2D(pfx) == Hdr(pfx, <<"Example", "(", "2D", ")", ":", SP, "t">>)
L_Examples2D(pfx) == Hdr(pfx, <<"Example", "s", "(", "2D", ")", ":">>)
L_Bogus(pfx) == Hdr(pfx, <<"Bogus", ":", SP, "z">>)
L_NoColon(pfx) == Hdr(pfx, <<"bogus">>)
L_Spaces(pfx) == pfx \o <<SP, SP, SP, NL>>
L_ArgDot(pfx) == Blk(pfx, <<".">>)
L_ExampleEmpty(pfx) == Hdr(pfx, <<"Example", "(", ")", ":">>)
L_Topics(pfx) == Hdr(pfx, <<"Topics", ":", SP, "a", ",", SP, "b">>)
L_Description(pfx) == Hdr(pfx, <<"Description", ":", SP, "text">>)
L_Returns(pfx) == Hdr(pfx, <<"Returns", ":">>)
L_Custom(pfx) == Hdr(pfx, <<"Custom", ":", SP, "t">>)
L_Figure(pfx) == Hdr(pfx, <<"Figure", ":", SP, "t">>)
L_Figures(pfx) == Hdr(pfx, <<"Figure", "s", ":">>)
L_FigureNORENDER(pfx) == Hdr(pfx, <<"Figure", "(", "NORENDER", ")", ":", SP, "t">>)
L_Anchors(pfx) == Hdr(pfx, <<"Anchors", ":">>)
L_ExtraAnchors(pfx) == Hdr(pfx, <<"Extra", SP, "Anchors", ":">>)
L_SideEffects(pfx) == Hdr(pfx, <<"Side", SP, "Effects", ":">>)
L_UsageNoColon(pfx) == Hdr(pfx, <<"Usage">>)
\* raw lines: a bare constant with a trailing comment, and a line of code
L_BareConstant == <<"FOO", SP, "=", SP, "1", ";", SP, SP, "/", "/", SP, "the", SP, "constant", NL>>
L_Code == <<"module", SP, "foo", "(", ")", ";", NL>>

\* ImageProcessing.__init__, lines 121-126, and the dictionary self.hashes
\* of line 138, a set of <<key, hash>>
ImageProcessing_init == [examples |-> <<>>, force |-> FALSE, test_only |-> FALSE, hashes |-> {}]

\* The state of everything but the input
InitState ==
    /\ lines = input
    /\ block = <<>>
    /\ currsect = 0
    /\ sections = <<>>
    /\ deprecated_section = <<>>
    /\ libname = <<>>
    /\ libdesc = <<>>
    /\ includes = <<>>
    /\ commoncode = <<>>
    /\ sect = Section_init
    /\ node = LeafNode_init
    /\ blankcnt = 0
    /\ stdout = <<>>
    /\ exitcode = <<>>
    /\ outfile = [opened |-> FALSE, data |-> <<>>]
    /\ iterlines = Len(input)

\* No image requested yet, the hash cache empty
InitImages ==
    /\ imgprc = ImageProcessing_init
    /\ db = {}
    /\ todo = <<>>
    /\ rendered = <<>>

\* The number of fragments an input file is made of
MaxChunks == 3

\* The input files: up to MaxChunks fragments of one family, in any order
Files(chunks) == {Flatten(c) : c \in SeqsUpTo(chunks, MaxChunks)}

\* The fragments of library files: sections, their descriptions and figures,
\* leaves, deprecated leaves, blank lines, raw lines
LibChunks(pfx) ==
    {<<L_Section(pfx)>>, <<L_Section(pfx), L_Text(pfx)>>, <<L_Section(pfx), L_Code>>,
     <<L_Figure2D(pfx), L_Text(pfx)>>, <<Blank(pfx)>>, <<Blank(pfx), Blank(pfx)>>,
     <<L_Function(pfx)>>, <<L_Function(pfx), L_Deprecated(pfx)>>,
     <<L_BareConstant>>, <<L_LibFile(pfx), L_Text(pfx)>>}

\* The fragments of library files whose leaves have arguments
ArgLibChunks(pfx) ==
    {<<L_Section(pfx), L_Code>>, <<L_Function(pfx)>>,
     <<L_Function(pfx), L_Arguments(pfx), L_ArgX(pfx)>>,
     <<L_Arguments(pfx), L_ArgX(pfx)>>, <<L_ArgSep(pfx), L_ArgY(pfx)>>,
     <<L_ArgNoEq(pfx)>>, <<Blank(pfx), Blank(pfx)>>, <<L_Code>>}

\* The fragments of library files with figures and examples, typed or not, at
\* the level of the section and of the leaf
FigLibChunks(pfx) ==
    {<<L_Section(pfx)>>, <<L_Figure(pfx), L_Text(pfx)>>,
     <<L_Figures(pfx), L_Text(pfx), L_Text(pfx)>>, <<L_Figure2D(pfx), L_Text(pfx)>>,
     <<L_FigureNORENDER(pfx), L_Text(pfx)>>, <<L_Function(pfx)>>, <<L_Module(pfx)>>,
     <<L_Example(pfx), L_Text(pfx)>>, <<Blank(pfx), Blank(pfx)>>, <<L_Code>>}

\* processFile on a library file
Init ==
    /\ prefix \in {SlashPrefix, NoPrefix}
    /\ input \in Files(LibChunks(prefix)) \cup Files(ArgLibChunks(prefix))
                  \cup Files(FigLibChunks(prefix))
    /\ pc = "loop"
    /\ InitState
    /\ InitImages
    /\ blanks = 1

Spec == Init /\ [][Next]_vars

-----------------------------------------------------------------------------
(* LeafNode.parse_lines called on the lines of one leaf *)

LeafHeaderLines(pfx) ==
    {L_Function(pfx), L_Module(pfx), L_Constant(pfx), L_FunctionModule(pfx)}

\* The number of fragments that follow the header line of a leaf
MaxLeafChunks == 3

LeafFiles(headers, chunks) ==
    {<<h>> \o Flatten(c) : h \in headers, c \in SeqsUpTo(chunks, MaxLeafChunks)}

\* Usage headers, usage lines (indented, with a dash, unindented), blank lines
UsageChunks(pfx) ==
    {<<L_Usage(pfx)>>, <<L_Usage(pfx), L_UsageLine(pfx)>>,
     <<L_UsageTitled(pfx), L_UsageLine(pfx)>>, <<L_UsageLine(pfx)>>,
     <<L_DashUsageLine(pfx)>>, <<L_DashLine(pfx)>>, <<L_Spaces(pfx)>>,
     <<Blank(pfx)>>, <<Blank(pfx), Blank(pfx)>>, <<L_Code>>}

\* Arguments headers and their lines
ArgChunks(pfx) ==
    {<<L_Arguments(pfx)>>, <<L_Arguments(pfx), L_ArgX(pfx)>>, <<L_ArgX(pfx)>>,
     <<L_ArgY(pfx)>>, <<L_ArgSep(pfx)>>, <<L_ArgSep(pfx), L_ArgY(pfx)>>,
     <<L_ArgNoEq(pfx)>>, <<L_ArgDot(pfx)>>, <<Blank(pfx)>>}

\* Example headers and their code
ExampleChunks(pfx) ==
    {<<L_Example(pfx)>>, <<L_Example(pfx), L_UsageLine(pfx)>>,
     <<L_Examples(pfx), L_UsageLine(pfx), L_DashUsageLine(pfx)>>,
     <<L_Example2D(pfx), L_UsageLine(pfx)>>,
     <<L_Examples2D(pfx), L_UsageLine(pfx), L_DashUsageLine(pfx)>>,
     <<L_ExampleEmpty(pfx), L_UsageLine(pfx)>>, <<L_Module(pfx)>>, <<Blank(pfx)>>}

\* The block headers of a leaf and lines that are none
HeaderChunks(pfx) ==
    {<<L_Deprecated(pfx)>>, <<L_Topics(pfx)>>, <<L_Description(pfx), L_UsageLine(pfx)>>,
     <<L_Returns(pfx)>>, <<L_Custom(pfx)>>, <<L_Figure(pfx), L_UsageLine(pfx)>>,
     <<L_Anchors(pfx), L_ArgX(pfx)>>, <<L_ExtraAnchors(pfx)>>, <<L_SideEffects(pfx)>>,
     <<L_Bogus(pfx)>>, <<L_NoColon(pfx)>>, <<L_UsageNoColon(pfx)>>,
     <<L_Section(pfx)>>, <<Blank(pfx)>>}

\* Blank lines, plain and padded with spaces, after header lines and after
\* blocks
BlankChunks(pfx) ==
    {<<L_Usage(pfx), L_UsageLine(pfx)>>, <<L_Spaces(pfx), L_Spaces(pfx)>>,
     <<L_Spaces(pfx)>>, <<Blank(pfx)>>, <<Blank(pfx), Blank(pfx)>>,
     <<L_Deprecated(pfx)>>, <<L_Topics(pfx)>>}

\* The call of line 849: a fresh node, the cursor at a leaf header
InitLeaf ==
    /\ prefix \in {SlashPrefix, NoPrefix}
    /\ input \in LeafFiles({L_Function(prefix)}, UsageChunks(prefix))
            \cup LeafFiles({L_Function(prefix)}, ArgChunks(prefix))
            \cup LeafFiles(LeafHeaderLines(prefix), ExampleChunks(prefix))
            \cup LeafFiles({L_Function(prefix)}, HeaderChunks(prefix))
            \cup LeafFiles({L_Function(prefix)}, BlankChunks(prefix))
    /\ pc = "leaf_loop"
    /\ InitState
    /\ InitImages
    /\ blanks = 1

NextLeaf == LeafIter

SpecLeaf == InitLeaf /\ [][NextLeaf]_vars

-----------------------------------------------------------------------------
(* get_comment_block called on its own *)

\* The number of lines of the input of a direct get_comment_block call
MaxBlockLines == 4

BlockPrefix == <<"P">>

W_hello == <<"h", "e", "l", "l", "o">>
W_world == <<"w", "o", "r", "l", "d">>
W_done == <<"d", "o", "n", "e">>

BlockLines ==
    {<<"P", SP>> \o W_hello, <<"P", SP, SP>> \o W_world, <<"P">>,
     <<"P", SP>> \o W_done, <<"P", SP, ".">>, <<"P", SP, ".", NL>>, <<"P", SP>>,
     <<"P", SP, SP, "x", SP, NL>>, <<"Q", SP, "x">>}

InitBlock ==
    /\ prefix = BlockPrefix
    /\ input \in SeqsUpTo(BlockLines, MaxBlockLines)
    /\ pc = "block"
    /\ InitState
    /\ InitImages
    /\ blanks \in {1, 2, 3}

\* lines, block = get_comment_block(lines, prefix, blanks)
ReadBlock ==
    /\ pc = "block"
    /\ LET r == get_comment_block(lines, prefix, blanks)
       IN  /\ lines' = r.lines
           /\ block' = r.block
    /\ pc' = "returned"
    /\ UNCHANGED <<prefix, input, iterlines, imgprc, db, todo, rendered,
                   blanks, currsect, sections, deprecated_section,
                   libname, libdesc, includes, commoncode, sect, node, blankcnt,
                   stdout, exitcode, outfile>>

NextBlock == ReadBlock

SpecBlock == InitBlock /\ [][NextBlock]_vars

-----------------------------------------------------------------------------
(* mkdn_esc called on its own *)

\* The length of the texts of a direct mkdn_esc call
MaxEscLen == 4

\* The characters of those texts: a letter, the four escaped characters and
\* the backquote.  No text that reaches mkdn_esc holds a line terminator: the
\* parsers rstrip every line they keep.
EscAlphabet == {"a", "_", "&", "<", ">", Backquote}

\* a_b <c> & d
EscExample == <<"a", "_", "b", SP, "<", "c", ">", SP, "&", SP, "d">>

\* The text is held as the one line of input
InitEsc ==
    /\ prefix = <<>>
    /\ input \in {<<txt>> : txt \in SeqsUpTo(EscAlphabet, MaxEscLen) \cup {EscExample}}
    /\ pc = "esc"
    /\ InitState
    /\ InitImages
    /\ blanks = 1

\* out.append(mkdn_esc(line)), as of lines 530, 569, 752, 879
Escape ==
    /\ pc = "esc"
    /\ block' = <<mkdn_esc(Head(lines))>>
    /\ lines' = Tail(lines)
    /\ pc' = "escaped"
    /\ UNCHANGED <<prefix, input, iterlines, imgprc, db, todo, rendered,
                   blanks, currsect, sections, deprecated_section,
                   libname, libdesc, includes, commoncode, sect, node, blankcnt,
                   stdout, exitcode, outfile>>

NextEsc == Escape

SpecEsc == InitEsc /\ [][NextEsc]_vars

-----------------------------------------------------------------------------
(* ImageProcessing.process_examples called on its own *)

\* The number of requests on the pending list, and the number of runs of
\* process_examples over it
MaxRequests == 3
MaxRuns == 2

\* The exit status of run_openscad_script when the renderer fails (line 116)
RendererExit == -1

\* The requests LibFile.gen_md adds for library files of leaves named foo: the
\* first example of a leaf (foo.png; two leaves of that name give two requests
\* for that file), a second example, and a leaf figure of type NORENDER
ImgRequests ==
    {<<FileRoot \o <<".", "scad">>, <<"foo", ".", "png">>, <<<<"cube", "(", ")", ";">>>>, <<"3D">>>>,
     <<FileRoot \o <<".", "scad">>, <<"foo", ".", "png">>, <<<<"sphere", "(", ")", ";">>>>, <<"3D">>>>,
     <<FileRoot \o <<".", "scad">>, <<"foo", ".", "png">>, <<<<"cube", "(", ")", ";">>>>, <<"2D">>>>,
     <<FileRoot \o <<".", "scad">>, <<"foo", "_", "2", ".", "png">>, <<<<"cube", "(", ")", ";">>>>, <<"3D">>>>,
     <<FileRoot \o <<".", "scad">>, <<"foo", "_", "fig", "1", ".", "png">>,
       <<<<"cube", "(", ")", ";">>>>, <<"NORENDER">>>>}

\* key = "{0} - {1}".format(libfile, imgfile), line 161
ImgKey(req) == req[1] \o <<SP, "-", SP>> \o req[2]

\* The text that is hashed, lines 156-160: extype, then every line of the
\* code, with nothing between them; sha256 is taken for injective on it
ImgHash(req) == req[4] \o Flatten(req[3])

\* key in d and d[key] == hash
Cached(d, key, hash) == <<key, hash>> \in d

\* d[key] = hash
Put(d, key, hash) == {kv \in d : kv[1] # key} \cup {<<key, hash>>}

\* The hash cache a run finds: empty, or with the hash of one request
InitImg ==
    /\ prefix = <<>>
    /\ input = <<>>
    /\ pc = "img_start"
    /\ InitState
    /\ blanks = 1
    /\ \E reqs \in SeqsUpTo(ImgRequests, MaxRequests), d \in SUBSET {<<ImgKey(r), ImgHash(r)>> : r \in ImgRequests} :
          /\ Cardinality(d) <= 1
          /\ imgprc = [ImageProcessing_init EXCEPT !.examples = reqs]
          /\ db = d
    /\ todo = <<>>
    /\ rendered = <<>>

\* process_examples, lines 134-141, up to its first loop; the second run is
\* the repeated one, without force
ProcessExamples ==
    /\ pc = "img_start"
    /\ \E force \in BOOLEAN, test_only \in BOOLEAN :
          /\ (rendered # <<>>) => ~force
          /\ imgprc' = [imgprc EXCEPT !.force = force, !.test_only = test_only,
                                      !.hashes = {}]
          /\ rendered' = Append(rendered, [force |-> force, test_only |-> test_only,
                                           calls |-> <<>>])
    /\ todo' = imgprc.examples
    /\ pc' = "img_loop"
    /\ UNCHANGED <<prefix, input, iterlines, db,
                   lines, blanks, block, currsect, sections,
                   deprecated_section, libname, libdesc, includes, commoncode,
                   sect, node, blankcnt, stdout, exitcode, outfile>>

\* One call of gen_example_image, lines 145-253, from the loop of line 140.
\* The renderer succeeds or fails; when it fails run_openscad_script exits
\* (line 116) and the hashes of the run are not stored.
GenExampleImage ==
    /\ pc = "img_loop" /\ todo # <<>>
    /\ LET req == Head(todo)
           key == ImgKey(req)
           hash == ImgHash(req)
           run == Len(rendered)
       IN  IF req[4] = <<"NORENDER">> \/ (Cached(db, key, hash) /\ ~imgprc.force)
           THEN /\ todo' = Tail(todo)
                /\ UNCHANGED <<imgprc, rendered, pc, exitcode>>
           ELSE /\ rendered' = [rendered EXCEPT ![run].calls = Append(@, req)]
                /\ \E ok \in BOOLEAN :
                      IF ok
                      THEN /\ imgprc' = IF imgprc.test_only THEN imgprc
                                        ELSE [imgprc EXCEPT !.hashes = Put(@, key, hash)]
                           /\ todo' = Tail(todo)
                           /\ UNCHANGED <<pc, exitcode>>
                      ELSE /\ exitcode' = <<RendererExit>>
                           /\ pc' = "exited"
                           /\ UNCHANGED <<imgprc, todo>>
    /\ UNCHANGED <<prefix, input, iterlines, db,
                   lines, blanks, block, currsect, sections,
                   deprecated_section, libname, libdesc, includes, commoncode,
                   sect, node, blankcnt, stdout, outfile>>

\* for key, hash in self.hashes.items(): db[key] = hash, lines 142-143
StoreHashes ==
    /\ pc = "img_loop" /\ todo = <<>>
    /\ db' = {kv \in db : \A h \in imgprc.hashes : h[1] # kv[1]} \cup imgprc.hashes
    /\ pc' = "img_done"
    /\ UNCHANGED <<prefix, input, iterlines, imgprc, todo, rendered,
                   lines, blanks, block, currsect, sections,
                   deprecated_section, libname, libdesc, includes, commoncode,
                   sect, node, blankcnt, stdout, exitcode, outfile>>

\* The program run again on the same file: a new ImageProcessing object
\* (line 256), the same requests added by gen_md, the hash cache as it was left
Rerun ==
    /\ pc = "img_done" /\ Len(rendered) < MaxRuns
    /\ imgprc' = [ImageProcessing_init EXCEPT !.examples = imgprc.examples]
    /\ pc' = "img_start"
    /\ UNCHANGED <<prefix, input, iterlines, db, todo, rendered,
                   lines, blanks, block, currsect, sections,
                   deprecated_section, libname, libdesc, includes, commoncode,
                   sect, node, blankcnt, stdout, exitcode, outfile>>

NextImg ==
    \/ ProcessExamples
    \/ GenExampleImage
    \/ StoreHashes
    \/ Rerun

SpecImg == InitImg /\ [][NextImg]_vars

-----------------------------------------------------------------------------
(* The properties: what they speak of *)

\* The number of lines the cursor has passed
Consumed == Len(input) - Len(lines)

\* A line carries the prefix and a space; its text with the prefix and w more
\* characters removed
Carries(l, pfx) == StartsWith(l, pfx \o <<SP>>)
Cut(l, pfx, w) == Drop(l, Len(pfx) + w)

\* The indentation width of the first of the lines ls
FirstWidth(ls, pfx) == LeadCount(Drop(ls[1], Len(pfx)), {SP})

\* The length of the leading run of the lines ls that carry the prefix and a
\* space and are not empty after the cut
RunLength(ls, pfx) ==
    IF ls = <<>> \/ ~Carries(ls[1], pfx) THEN 0
    ELSE LET ok(i) == Carries(ls[i], pfx) /\ Cut(ls[i], pfx, FirstWidth(ls, pfx)) # <<>>
         IN  IF \A i \in 1..Len(ls) : ok(i) THEN Len(ls)
             ELSE (CHOOSE k \in 1..Len(ls) : ~ok(k) /\ \A i \in 1..(k - 1) : ok(i)) - 1

\* The lines of that run, cut and without trailing whitespace, a lone "." as
\* the empty line
RunBlock(ls, pfx) ==
    [i \in 1..RunLength(ls, pfx) |->
        LET c == rstrip(Cut(ls[i], pfx, FirstWidth(ls, pfx)))
        IN  IF c = <<".">> THEN <<>> ELSE c]

\* The text of a line as the parsers see it: no trailing whitespace, no prefix
TextOf(l) == Drop(rstrip(l), Len(prefix))

\* The leaf parser is about to read the line at the cursor, a non-blank line
AtLine == pc = "leaf_loop" /\ LoopGoesOn(lines, prefix) /\ ~IsBlankLine(rstrip(Head(lines)))

\* All the leaves the library holds, and those made of bare constants
AllLeaves(sects) == {<<i, j>> \in (1..Len(sects)) \X (1..8) : j <= Len(sects[i].leaf_nodes)}
Synthesized(sects) == {ij \in AllLeaves(sects) : sects[ij[1]].leaf_nodes[ij[2]].extype = <<"Constant">>}

-----------------------------------------------------------------------------
(* C1 *)

\* The input has a leaf header as its k-th line, after a Section header, its
\* description and figure lines, and blank lines
C1Shape(k) ==
    /\ Section_match_line(input[1], prefix)
    /\ LeafNode_match_line(input[k], prefix)
    /\ \E b \in 2..k :
          /\ \A j \in 2..(b - 1) :
                \/ Carries(input[j], prefix) /\ strip(Cut(input[j], prefix, 0)) # <<>>
                \/ input[j] = L_Figure2D(prefix)
          /\ \A j \in b..(k - 1) : input[j] = Blank(prefix)

\* C1: the Section Parser never consumes a Leaf Node header line.  When a leaf
\* header follows a Section header, its description, its figures and any
\* number of blank lines, no step of the Section Parser moves the cursor past
\* that header.
C1_SectionLeavesLeafHeader ==
    [][\A k \in 2..Len(input) :
          (C1Shape(k) /\ pc \in {"section", "sect_loop"} /\ Consumed < k)
              => Len(input) - Len(lines') < k]_vars

-----------------------------------------------------------------------------
(* C2 *)

Deprecated(nd) == nd.status # <<>> /\ nd.status[1] = "DEPRECATED"

\* The ordinary sections hold no deprecated leaf; the Deprecations section,
\* if there is one, has that name and holds deprecated leaves, at least one
C2_Sorted ==
    /\ \A i \in 1..Len(sections) : \A j \in 1..Len(sections[i].leaf_nodes) :
          ~Deprecated(sections[i].leaf_nodes[j])
    /\ Len(deprecated_section) <= 1
    /\ deprecated_section # <<>> =>
          /\ deprecated_section[1].name = <<"Deprecations">>
          /\ deprecated_section[1].leaf_nodes # <<>>
          /\ \A j \in 1..Len(deprecated_section[1].leaf_nodes) :
                Deprecated(deprecated_section[1].leaf_nodes[j])

\* A parsed leaf goes to the Deprecations section or to the last ordinary
\* section, an unnamed one being opened if there is none; nothing else
\* touches the Deprecations section
C2_Routed ==
    LET open == IF sections = <<>> THEN <<Section_init>> ELSE sections
        dep == IF deprecated_section = <<>>
               THEN [Section_init EXCEPT !.name = <<"Deprecations">>]
               ELSE deprecated_section[1]
    IN  IF pc = "leaf_ret"
        THEN IF Deprecated(node)
             THEN /\ deprecated_section' = <<[dep EXCEPT !.leaf_nodes = Append(@, node)]>>
                  /\ sections' = sections
             ELSE /\ sections' = [open EXCEPT ![Len(open)].leaf_nodes = Append(@, node)]
                  /\ deprecated_section' = deprecated_section
        ELSE deprecated_section' = deprecated_section

\* C2: every leaf whose Status starts with DEPRECATED is in the Deprecations
\* section and in no ordinary section; every other leaf is in the most
\* recently opened ordinary section, an unnamed one being opened first if
\* there is none; the Deprecations section exists, named "Deprecations" and
\* outside the list of ordinary sections, iff a DEPRECATED leaf was parsed.
C2_DeprecatedRouting == []C2_Sorted /\ [][C2_Routed]_vars

C2_Witness ==
    /\ pc = "exited" /\ exitcode = <<NormalExit>>
    /\ deprecated_section # <<>>
    /\ Len(deprecated_section[1].leaf_nodes) = 1
    /\ \E i \in 1..Len(sections) : sections[i].leaf_nodes # <<>>

-----------------------------------------------------------------------------
(* C3 *)

\* The lines before the cursor that carry no prefix and match the pattern of
\* a bare constant
BareConstantsPassed ==
    {i \in 1..Consumed : ~StartsWith(input[i], strip(prefix)) /\ ConstPat(input[i]).ok}

\* C3: with a non-empty prefix, every line without the prefix that matches
\* the bare constant pattern yields one Leaf Node; no such line is dropped
\* without producing a node.
C3_NoConstantDropped ==
    (prefix # <<>>) => Cardinality(Synthesized(sections)) = Cardinality(BareConstantsPassed)

-----------------------------------------------------------------------------
(* C4 *)

W_foox == <<"foo", "(", "x", ")">>

\* A line indented under the prefix that has text
Indented(l) == Carries(l, prefix) /\ strip(Cut(l, prefix, 0)) # <<>>

\* The input is a Function header, an untitled Usage header, n usage lines
\* indented under the prefix, and two blank lines
C4Shape(n) ==
    /\ Len(input) = n + 4
    /\ StartsWith(input[1], prefix \o <<"Function", ":", SP>>)
    /\ input[2] = L_Usage(prefix)
    /\ \A i \in 3..(n + 2) : Indented(input[i])
    /\ input[n + 3] = Blank(prefix)
    /\ input[n + 4] = Blank(prefix)

\* The same with one usage line "- foo(x)" that is not indented
C4Unindented ==
    input = <<L_Function(prefix), L_Usage(prefix), L_DashLine(prefix),
              Blank(prefix), Blank(prefix)>>

-----------------------------------------------------------------------------
(* C5 *)

C5Example == <<<<"P", SP>> \o W_hello, <<"P", SP, SP>> \o W_world, <<"P">>,
               <<"P", SP>> \o W_done>>

\* C5 as claimed: the example returns the two lines and leaves only "P done",
\* the line "P" having been consumed
C5_PrefixLineConsumed ==
    (pc = "returned" /\ blanks = 1 /\ input = C5Example)
        => /\ block = <<W_hello, <<SP>> \o W_world>>
           /\ lines = <<<<"P", SP>> \o W_done>>

\* C5 as amended: with blanks = 1 the block is the leading run of lines that
\* carry prefix + space and are not empty once the prefix and the first line's
\* indentation width are cut, each returned cut and rstripped (a lone "." as
\* the empty string); the line that ends the run is consumed only if it
\* carries prefix + space, so a line that is the prefix alone stays unconsumed
C5_BlockAndRest ==
    (pc = "returned" /\ blanks = 1)
        => /\ block = RunBlock(input, prefix)
           /\ lines = IF RunLength(input, prefix) < Len(input)
                         /\ Carries(input[RunLength(input, prefix) + 1], prefix)
                      THEN Drop(input, RunLength(input, prefix) + 1)
                      ELSE Drop(input, RunLength(input, prefix))

C5_Witness ==
    /\ pc = "returned" /\ blanks = 1 /\ input = C5Example
    /\ block = <<W_hello, <<SP>> \o W_world>>
    /\ lines = <<<<"P">>, <<"P", SP>> \o W_done>>

-----------------------------------------------------------------------------
(* C6 *)

\* The leaf parser is about to read a line that begins with the tokens kw
AtHeader(kw) == AtLine /\ StartsWith(TextOf(Head(lines)), kw)

\* The block that follows the line at the cursor
BlockAhead == RunBlock(Tail(lines), prefix)

IsSep(l) == strip(l) = <<"-", "-", "-">>
HasEq(l) == \E i \in 1..Len(l) : l[i] = "="

\* name = description, split at the first "=", both trimmed
ArgEntry(l) ==
    LET i == CHOOSE k \in 1..Len(l) : l[k] = "=" /\ \A m \in 1..(k - 1) : l[m] # "="
    IN  <<strip(SubSeq(l, 1, i - 1)), strip(SubSeq(l, i + 1, Len(l)))>>

ArgEntries(ls) == [i \in 1..Len(ls) |-> ArgEntry(ls[i])]

\* C6: in an Arguments: block of name = description lines, the lines before
\* the first "---" line are appended in order to the positional arguments and
\* the lines after it to the named arguments, each split at its first "=" and
\* trimmed; a "---" line produces no entry.
C6_ArgumentsSplit ==
    [][LET blk == BlockAhead
           seps == {i \in 1..Len(blk) : IsSep(blk[i])}
           first == IF seps = {} THEN Len(blk) + 1
                    ELSE CHOOSE i \in seps : \A j \in seps : i <= j
           before == SubSeq(blk, 1, first - 1)
           after == SelectSeq(SubSeq(blk, first + 1, Len(blk)), LAMBDA l : ~IsSep(l))
       IN  (AtHeader(<<"Arguments", ":">>)
              /\ \A i \in 1..Len(blk) : IsSep(blk[i]) \/ HasEq(blk[i]))
               => /\ node'.arguments = node.arguments \o ArgEntries(before)
                  /\ node'.named_arguments = node.named_arguments \o ArgEntries(after)
                  /\ exitcode' = <<>>]_vars

C6_Witness ==
    /\ exitcode = <<>>
    /\ node.arguments = << <<<<"x">>, <<"the", SP, "x", SP, "value">>>> >>
    /\ node.named_arguments = << <<<<"y">>, <<"the", SP, "y", SP, "value">>>> >>

-----------------------------------------------------------------------------
(* C7 *)

\* The line at the cursor is an Arguments: header whose block has a line that
\* is no "---" and has no "="
C7_BadBlockAhead ==
    /\ AtHeader(<<"Arguments", ":">>)
    /\ \E i \in 1..Len(BlockAhead) : ~IsSep(BlockAhead[i]) /\ ~HasEq(BlockAhead[i])

\* C7: an Arguments: block with a line, other than a "---" separator, that
\* has no "=" ends the run with status -2: the leaf being parsed is attached
\* to no section and no markdown is written, whatever was parsed before it.
C7_ArgumentsFatal ==
    /\ [](exitcode = <<ParseErrorExit>> => (pc = "exited" /\ ~outfile.opened))
    /\ [][/\ C7_BadBlockAhead =>
                /\ exitcode' = <<ParseErrorExit>>
                /\ UNCHANGED <<sections, deprecated_section, outfile>>
          /\ exitcode = <<ParseErrorExit>> => FALSE]_vars

C7_Witness ==
    /\ exitcode = <<ParseErrorExit>>
    /\ Len(sections) = 1 /\ sections[1].name = <<"S">> /\ sections[1].leaf_nodes = <<>>
    /\ node.arguments = << <<<<"x">>, <<"the", SP, "x", SP, "value">>>> >>
    /\ stdout # <<>> /\ stdout[Len(stdout)] = <<"z", SP, "the", SP, "z", SP, "value">>
    /\ ~outfile.opened

-----------------------------------------------------------------------------
(* C8 *)

\* The first words of the lines the leaf parser knows
Keywords ==
    {"Constant", "Function", "Module", "Status", "Topics", "Usage", "Description",
     "Returns", "Custom", "Figure", "Arguments", "Anchors", "Extra", "Side", "Example"}

\* C8: a non-blank line read by the leaf parser that does not begin with a
\* recognized header keyword, with or without a colon, ends the run with
\* status -2 and is echoed; it is not skipped and not absorbed into the node.
C8_UnrecognizedFatal ==
    [][(AtLine /\ (IF TextOf(Head(lines)) = <<>> THEN TRUE
                   ELSE TextOf(Head(lines))[1] \notin Keywords))
          => /\ exitcode' = <<ParseErrorExit>>
             /\ stdout' # <<>>
             /\ stdout'[Len(stdout')] = TextOf(Head(lines))
             /\ node' = node]_vars

C8_Witness ==
    /\ exitcode = <<ParseErrorExit>>
    /\ stdout # <<>> /\ stdout[Len(stdout)] = <<"bogus">>
    /\ node.status = <<"DEPRECATED", SP, "use", SP, "bar">>

-----------------------------------------------------------------------------
(* C9 *)

\* C9: a Usage: header is fatal (status -2) exactly when the block read after
\* it is empty; when at least one usage line follows, parsing goes on and
\* exactly one (title, usage lines) entry is appended to the usages.
C9_UsageNeedsLines ==
    [][AtHeader(<<"Usage", ":">>) =>
          IF BlockAhead = <<>>
          THEN /\ exitcode' = <<ParseErrorExit>>
               /\ node'.usages = node.usages
          ELSE /\ exitcode' = <<>>
               /\ pc' = "leaf_loop"
               /\ node'.usages =
                     Append(node.usages,
                            <<strip(Drop(TextOf(Head(lines)), 2)), BlockAhead>>)]_vars

C9_Witness ==
    /\ exitcode = <<ParseErrorExit>>
    /\ node.usages = << <<<<"t">>, <<W_foox>>>> >>
    /\ stdout # <<>> /\ stdout[Len(stdout)] = <<"Usage", ":">>

-----------------------------------------------------------------------------
(* C10 *)

\* An Example header: plural or not, with (TYPE) or without, with a title or
\* without
ExampleHeader(plural, type, title) ==
    <<"Example">> \o (IF plural THEN <<"s">> ELSE <<>>)
        \o (IF type # <<>> THEN <<"(">> \o type \o <<")">> ELSE <<>>)
        \o <<":">> \o (IF title # <<>> THEN <<SP>> \o title ELSE <<>>)

\* C10: an Example header without (TYPE) is recorded with render-type "3D" in
\* a Module or Function&Module leaf and with "NORENDER" in a Constant or
\* Function leaf; an explicit (TYPE) is kept; with a plural header each line
\* of the block becomes an example of its own with an empty title.
C10_ExampleRenderType ==
    [][\A plural \in BOOLEAN, type \in {<<>>, <<"2D">>}, title \in {<<>>, <<"t">>} :
          (AtLine /\ TextOf(Head(lines)) = ExampleHeader(plural, type, title)
                  /\ node.leaftype \in LeafHeaders)
              => LET rt == IF type # <<>> THEN type
                           ELSE IF node.leaftype \in {<<"Module">>, <<"Function", "&", "Module">>}
                           THEN <<"3D">> ELSE <<"NORENDER">>
                 IN  /\ exitcode' = <<>>
                     /\ node'.examples = node.examples \o
                           (IF plural
                            THEN [i \in 1..Len(BlockAhead) |-> <<<<>>, <<BlockAhead[i]>>, rt>>]
                            ELSE <<<<title, BlockAhead, rt>>>>)]_vars

C10_Witness ==
    /\ node.leaftype = <<"Module">>
    /\ node.examples = << <<<<>>, <<W_foox>>, <<"3D">>>>,
                          <<<<>>, <<<<"-", SP>> \o W_foox>>, <<"3D">>>>,
                          <<<<"t">>, <<>>, <<"3D">>>> >>

-----------------------------------------------------------------------------
(* C11 *)

\* The section parser is about to read the line at the cursor, a non-blank line
AtSectionLine ==
    pc = "sect_loop" /\ LoopGoesOn(lines, prefix) /\ ~IsBlankLine(rstrip(Head(lines)))

\* A Figure header: plural or not, with (TYPE) or without, with a title or
\* without
FigureHeader(plural, type, title) ==
    <<"Figure">> \o (IF plural THEN <<"s">> ELSE <<>>)
        \o (IF type # <<>> THEN <<"(">> \o type \o <<")">> ELSE <<>>)
        \o <<":">> \o (IF title # <<>> THEN <<SP>> \o title ELSE <<>>)

\* The figures an untyped Figure header at the cursor is to add
FiguresAhead(plural, title) ==
    IF plural
    THEN [i \in 1..Len(BlockAhead) |-> <<<<>>, <<BlockAhead[i]>>, <<"3D">>>>]
    ELSE <<<<title, BlockAhead, <<"3D">>>>>>

\* C11: a Figure:/Figures: header without (TYPE) is recorded with render-type
\* "3D" in a Leaf Node and in a Section: parsing goes on normally and the
\* figure (for the plural form one figure per block line) is added to the
\* figures of the leaf, respectively of the section.
C11_UntypedFigure3D ==
    [][\A plural \in BOOLEAN, title \in {<<>>, <<"t">>} :
          /\ (AtLine /\ TextOf(Head(lines)) = FigureHeader(plural, <<>>, title))
                => /\ exitcode' = <<>>
                   /\ node'.figures = node.figures \o FiguresAhead(plural, title)
          /\ (AtSectionLine /\ TextOf(Head(lines)) = FigureHeader(plural, <<>>, title))
                => /\ exitcode' = <<>>
                   /\ sect'.figures = sect.figures \o FiguresAhead(plural, title)]_vars

-----------------------------------------------------------------------------
(* C12 *)

\* The leaf nodes of the Document Model: those of the sections and those of
\* the deprecated section
ModelLeaves ==
    {sections[ij[1]].leaf_nodes[ij[2]] : ij \in AllLeaves(sections)}
        \cup {deprecated_section[ij[1]].leaf_nodes[ij[2]] : ij \in AllLeaves(deprecated_section)}

\* C12: every Leaf Node of the Document Model, those synthesized from bare
\* constant lines included, has a leaf-type that is exactly one of Constant,
\* Function, Module, Function&Module (for a synthesized node: Constant).
C12_LeafTypeSet ==
    \A nd \in ModelLeaves :
        /\ nd.leaftype \in LeafHeaders
        /\ nd.extype = <<"Constant">> => nd.leaftype = <<"Constant">>

-----------------------------------------------------------------------------
(* C13 *)

\* The i-th input line with the prefix and the first line's indentation cut
CutLine(i) == Cut(input[i], prefix, FirstWidth(input, prefix))

\* A lone "." after the cut (trailing whitespace aside)
IsDotLine(i) == rstrip(CutLine(i)) = <<".">>

\* The `blanks` lines that end at line k are all empty after the cut
BlankRunEnds(k) ==
    k >= blanks /\ \A j \in (k - blanks + 1)..k : CutLine(j) = <<>>

\* The first line that ends the block: one that does not carry prefix + space,
\* or the last of `blanks` consecutive empty lines; Len(input) + 1 if none
BlockStop ==
    LET stops(k) == ~Carries(input[k], prefix) \/ BlankRunEnds(k)
    IN  IF \A k \in 1..Len(input) : ~stops(k) THEN Len(input) + 1
        ELSE CHOOSE k \in 1..Len(input) : stops(k) /\ \A i \in 1..(k - 1) : ~stops(i)

\* C13: in the Block Reader, for every blanks >= 1, a line that is exactly "."
\* after the prefix and the indentation are cut becomes an empty-string entry
\* of the block, never ends the block, and resets the blank counter: the block
\* ends only at the last of `blanks` consecutive lines that are empty after
\* the cut (a "." line between them starts the count anew) or at a line
\* without prefix + space.
C13_DotLine ==
    (pc = "returned")
        => /\ block = [i \in 1..(BlockStop - 1) |->
                          IF IsDotLine(i) THEN <<>> ELSE rstrip(CutLine(i))]
           /\ lines = IF BlockStop <= Len(input) /\ Carries(input[BlockStop], prefix)
                      THEN Drop(input, BlockStop)
                      ELSE Drop(input, BlockStop - 1)

\* blanks = 2: blank, ".", blank, text: the "." between the two blank lines
\* keeps the block open
C13_Witness ==
    /\ pc = "returned" /\ blanks = 2
    /\ input = <<<<"P", SP>>, <<"P", SP, ".">>, <<"P", SP>>, <<"P", SP>> \o W_hello>>
    /\ block = <<<<>>, <<>>, <<>>, W_hello>>
    /\ lines = <<>>

-----------------------------------------------------------------------------
(* C14 *)

\* The number of backquotes among the first n characters of txt
RECURSIVE Backquotes(_, _)
Backquotes(txt, n) ==
    IF n <= 0 THEN 0
    ELSE Backquotes(txt, n - 1) + (IF txt[n] = Backquote THEN 1 ELSE 0)

\* The backquotes pair up from the left: the 1st with the 2nd, the 3rd with
\* the 4th; a last odd one is unmatched.  Character i lies in a span when it
\* is a paired backquote or stands between the two of a pair.
InSpan(txt, i) ==
    LET before == Backquotes(txt, i - 1)
        all == Backquotes(txt, Len(txt))
    IN  IF txt[i] = Backquote
        THEN before % 2 = 1 \/ before + 1 < all
        ELSE before % 2 = 1 /\ before < all

\* One character escaped, once
EscapedOnce(c) ==
    CASE c = "_" -> <<"\\", "_">>
      [] c = "&" -> <<"&", "a", "m", "p", ";">>
      [] c = "<" -> <<"&", "l", "t", ";">>
      [] c = ">" -> <<"&", "g", "t", ";">>
      [] OTHER -> <<c>>

\* The text with every character outside the spans escaped once
EscapedOutsideSpans(txt) ==
    Flatten([i \in 1..Len(txt) |->
                IF InSpan(txt, i) THEN <<txt[i]>> ELSE EscapedOnce(txt[i])])

\* C14: mkdn_esc escapes every character outside backquoted spans (_ to \_,
\* & to &amp;, < to &lt;, > to &gt;), each exactly once, and copies the spans
\* unchanged; a_b <c> & d gives a\_b &lt;c&gt; &amp; d; the text after an
\* unmatched backquote is escaped in full.
C14_EscapedOnce ==
    (pc = "escaped")
        => /\ block = <<EscapedOutsideSpans(input[1])>>
           /\ input[1] = EscExample
                => block[1] = <<"a", "\\", "_", "b", SP, "&", "l", "t", ";", "c",
                                "&", "g", "t", ";", SP, "&", "a", "m", "p", ";", SP, "d">>

\* A span that holds "<", copied as it is, and "&" after it, escaped once
C14_Witness ==
    /\ pc = "escaped"
    /\ input[1] = <<Backquote, "<", Backquote, "&">>
    /\ block[1] = <<Backquote, "<", Backquote, "&", "a", "m", "p", ";">>

-----------------------------------------------------------------------------
(* C15 *)

\* The figures and examples of the Document Model, <<title, code, type>> each:
\* those of the sections and those of their leaves
ModelImages ==
    LET all == sections \o deprecated_section
    IN  Flatten([i \in 1..Len(all) |->
            all[i].figures
                \o Flatten([j \in 1..Len(all[i].leaf_nodes) |->
                       all[i].leaf_nodes[j].figures \o all[i].leaf_nodes[j].examples])])

\* Those that are to be rendered, and those of them that are to be shown
ToRender == SelectSeq(ModelImages, LAMBDA im : im[3] # <<"NORENDER">>)
ToShow == SelectSeq(ToRender, LAMBDA im : ~Contains(im[3], <<"Hide">>))

\* The image references of the markdown written
ImageRefs == {i \in 1..Len(outfile.data) : StartsWith(outfile.data[i], <<"![">>)}

\* C15: when the markdown is rendered, every figure (of a leaf or of a
\* section) and every example of render-type NORENDER is skipped: the markdown
\* has an image reference for the others only, and the pending list of the
\* Image Pipeline has a request for the others only.
C15_NORENDERSkipped ==
    (pc = "exited" /\ exitcode = <<NormalExit>>)
        => /\ \A i \in 1..Len(imgprc.examples) : imgprc.examples[i][4] # <<"NORENDER">>
           /\ Len(imgprc.examples) = Len(ToRender)
           /\ Cardinality(ImageRefs) = Len(ToShow)

-----------------------------------------------------------------------------
(* C16 *)

\* The run at hand is the repetition of a completed run that was no test run
RepeatedRun == Len(rendered) = 2 /\ ~rendered[1].test_only

\* C16: the Image Pipeline is idempotent under an unchanged hash.  A request
\* whose key maps in the hash cache to its hash is skipped, without the
\* renderer and without a change of the cache, unless force is set; after a
\* completed run that was no test run every request that was rendered has its
\* key mapped to its hash; so the immediately repeated run over the same
\* requests, without force, invokes the renderer zero times.
C16_RepeatedRunRendersNothing ==
    /\ (pc = "img_done" /\ Len(rendered) = 1 /\ ~rendered[1].test_only)
          => \A i \in 1..Len(rendered[1].calls) :
                Cached(db, ImgKey(rendered[1].calls[i]), ImgHash(rendered[1].calls[i]))
    /\ RepeatedRun => rendered[2].calls = <<>>

-----------------------------------------------------------------------------
(* C17 *)

\* C17: in the dispatch loop of the Library Parser a line is discarded
\* unparsed only in an iteration in which none of the steps before (the scan
\* of raw lines, LibFile header, Includes, CommonCode, Section, Leaf Node)
\* consumed a line: when the discard step removes a line, the cursor is where
\* it was when the iteration began.
C17_DiscardOnlyIfIdle ==
    [][(pc = "discard" /\ lines' # lines) => Len(lines) = iterlines]_vars

-----------------------------------------------------------------------------
(* C18 *)

\* C18: for every input and prefix the Library Parser terminates, and parsing
\* ends in one of two ways only: with no lines remaining (the markdown is then
\* written and the exit status is 0), or with a fatal parse-error exit.
C18_EndsEmptyOrParseError ==
    /\ (pc = "gen_md") => lines = <<>>
    /\ (pc = "exited") => exitcode \in {<<NormalExit>>, <<ParseErrorExit>>}

-----------------------------------------------------------------------------
(* C19 *)

\* A line that is blank under the prefix: slashes, then whitespace only
BlankUnder(l) ==
    \E n \in 0..Len(l) :
        /\ \A i \in 1..n : l[i] = "/"
        /\ \A i \in (n + 1)..Len(l) : l[i] \in Whitespace

\* A blank line that does not begin with the prefix and a space
PlainBlank(l) == BlankUnder(l) /\ ~Carries(l, prefix)

\* C19 as claimed: the Leaf Parser ends the node at the second of any two
\* consecutive lines that are blank under the prefix, wherever they stand in
\* the leaf, and consumes no later line.
C19_AnyTwoBlanksEnd ==
    \A k \in 2..(Len(input) - 1) :
        (BlankUnder(input[k]) /\ BlankUnder(input[k + 1])) => Consumed <= k + 1

\* C19 as amended: the Leaf Parser ends the node at the second of two
\* consecutive blank lines that do not begin with prefix + space (such lines
\* are never taken by the Block Reader), after a header line or after a block,
\* and consumes no later line; it ends a node only there, at a line without
\* the prefix, at the end of the input or with a fatal error, so a single
\* blank line followed by a non-blank line does not end it; every non-blank
\* line it reads resets the blank counter.
C19_TwoPlainBlanksEnd ==
    /\ [](/\ \A k \in 2..(Len(input) - 1) :
                (PlainBlank(input[k]) /\ PlainBlank(input[k + 1])) => Consumed <= k + 1
          /\ (pc = "leaf_ret")
                => \/ ~LoopGoesOn(lines, prefix)
                   \/ /\ Consumed >= 3
                      /\ BlankUnder(input[Consumed])
                      /\ BlankUnder(input[Consumed - 1]))
    /\ [][AtLine => blankcnt' = 0]_vars

\* Two plain blank lines after a Usage block end the node; the Status line
\* after them is left
C19_Witness ==
    /\ pc = "leaf_ret"
    /\ input = <<L_Function(prefix), L_Usage(prefix), L_UsageLine(prefix),
                 Blank(prefix), Blank(prefix), L_Deprecated(prefix)>>
    /\ lines = <<L_Deprecated(prefix)>>
    /\ node.usages # <<>> /\ node.status = <<>>

====
